---- MODULE Spec2Model ----
(***************************************************************************)
(* A model of the ray tracer's core: the tuple algebra, the matrix engine, *)
(* ray/sphere intersection, Phong lighting, the world and the camera's     *)
(* render loop.                                                            *)
(*                                                                         *)
(* Numbers.  An f64 is modelled as a rational [n, d] in lowest terms with  *)
(* d >= 0; d = 0 stands for the non-finite values (1/0 = +inf, -1/0 =      *)
(* -inf, 0/0 = NaN).  +, -, * and / are exact; sqrt is exact on perfect    *)
(* squares and rounded down to a decimal grid elsewhere.                   *)
(***************************************************************************)
EXTENDS Integers, Sequences, FiniteSets, TLC

\* ------------------------------------------------------------------ f64

Abs(n) == IF n < 0 THEN -n ELSE n

RECURSIVE Gcd(_, _)
Gcd(a, b) == IF b = 0 THEN a ELSE Gcd(b, a % b)

NaN == [n |-> 0, d |-> 0]

\* the f64 with value n/d
Q(n, d) ==
    IF n = 0 /\ d = 0 THEN NaN
    ELSE LET g == Gcd(Abs(n), Abs(d))
             s == IF d < 0 THEN -1 ELSE 1
         IN  [n |-> (s * n) \div g, d |-> (s * d) \div g]

I(n) == [n |-> n, d |-> 1]

IsNaN(a) == a.n = 0 /\ a.d = 0
IsFinite(a) == a.d # 0

\* f64 +
Add(a, b) ==
    IF a.d = 0 /\ b.d = 0
    THEN (IF a.n = b.n THEN a ELSE NaN)
    ELSE IF a.d = 0 THEN a
    ELSE IF b.d = 0 THEN b
    ELSE LET g == Gcd(a.d, b.d)
         IN  Q(a.n * (b.d \div g) + b.n * (a.d \div g), (a.d \div g) * b.d)

\* f64 unary -
Neg(a) == [n |-> -a.n, d |-> a.d]

\* f64 binary -
Sub(a, b) == Add(a, Neg(b))

\* f64 *
Mul(a, b) ==
    LET g1 == Gcd(Abs(a.n), b.d)
        g2 == Gcd(Abs(b.n), a.d)
    IN  IF g1 = 0 \/ g2 = 0 THEN Q(a.n * b.n, a.d * b.d)
        ELSE Q((a.n \div g1) * (b.n \div g2), (a.d \div g2) * (b.d \div g1))

\* f64 /
Div(a, b) == Mul(a, Q(b.d, b.n))

\* f64 comparisons (every comparison with NaN is false)
Lt(a, b) ==
    /\ ~IsNaN(a) /\ ~IsNaN(b)
    /\ IF a.d = 0 /\ b.d = 0 THEN a.n < b.n ELSE a.n * b.d < b.n * a.d
Le(a, b) ==
    /\ ~IsNaN(a) /\ ~IsNaN(b)
    /\ IF a.d = 0 /\ b.d = 0 THEN a.n <= b.n ELSE a.n * b.d <= b.n * a.d
Gt(a, b) == Lt(b, a)
Ge(a, b) == Le(b, a)

\* the largest k in lo..hi with k * k <= n  (lo * lo <= n is given)
RECURSIVE ISqrtIn(_, _, _)
ISqrtIn(n, lo, hi) ==
    IF lo >= hi THEN lo
    ELSE LET mid == (lo + hi + 1) \div 2
         IN  IF mid * mid <= n THEN ISqrtIn(n, mid, hi) ELSE ISqrtIn(n, lo, mid - 1)

ISqrt(n) == ISqrtIn(n, 0, IF n < 46340 THEN n ELSE 46340)

IsSquare(n) == ISqrt(n) * ISqrt(n) = n

\* f64::sqrt: exact when the value is the square of a rational, otherwise
\* rounded down to two decimals (one, or none, when the value is too large)
Sqrt(a) ==
    IF IsNaN(a) \/ a.n < 0 THEN NaN
    ELSE IF a.d = 0 THEN a
    ELSE IF IsSquare(a.n) /\ IsSquare(a.d) THEN Q(ISqrt(a.n), ISqrt(a.d))
    ELSE IF a.n <= 200000 THEN Q(ISqrt((a.n * 10000) \div a.d), 100)
    ELSE IF a.n <= 20000000 THEN Q(ISqrt((a.n * 100) \div a.d), 10)
    ELSE Q(ISqrt(a.n \div a.d), 1)

\* f64::powf for a whole exponent k >= 0
RECURSIVE Powf(_, _)
Powf(a, k) ==
    IF k = 0 THEN I(1)
    ELSE IF k % 2 = 0 THEN LET half == Powf(a, k \div 2) IN Mul(half, half)
    ELSE Mul(a, Powf(a, k - 1))

\* ------------------------------------------------------------------ Option

None == [tag |-> "None"]
Some(x) == [tag |-> "Some", v |-> x]
\* the outcome of unwrap() on None, of an index out of range, of an
\* arithmetic overflow check: the program terminates
Panic == [tag |-> "Panic"]

IsSome(o) == o.tag = "Some"

\* `let x = v; F(x)`: v is computed first, then F of its value
With(v, F(_)) == CHOOSE out \in {F(x) : x \in {v}} : TRUE

\* ------------------------------------------------------------------ matrices.rs

\* Matrix<R, C>: data[row][col], rows 0..R-1, columns 0..C-1
Matrix(R, C, data) == [R |-> R, C |-> C, data |-> data]

\* Matrix::new
new(R, C) == Matrix(R, C, [r \in 0..R-1 |-> [c \in 0..C-1 |-> I(0)]])

\* Matrix::new_init, from a sequence of rows of whole numbers
new_init(rows) ==
    Matrix(Len(rows), Len(rows[1]),
           [r \in 0..Len(rows)-1 |-> [c \in 0..Len(rows[1])-1 |-> I(rows[r+1][c+1])]])

\* Matrix::new_identity
new_identity(R) ==
    Matrix(R, R, [r \in 0..R-1 |-> [c \in 0..R-1 |-> IF r = c THEN I(1) ELSE I(0)]])

\* translation with x, y and z in the last row in place of the last column
translation_in_last_row(x, y, z) ==
    Matrix(4, 4, [r \in 0..3 |-> [c \in 0..3 |->
        IF r = c THEN I(1)
        ELSE IF r = 3 THEN (CASE c = 0 -> x [] c = 1 -> y [] c = 2 -> z)
        ELSE I(0)]])

\* Matrix::translation
translation(x, y, z) ==
    Matrix(4, 4, [r \in 0..3 |-> [c \in 0..3 |->
        IF r = c THEN I(1)
        ELSE IF c = 3 THEN (CASE r = 0 -> x [] r = 1 -> y [] r = 2 -> z)
        ELSE I(0)]])

\* Matrix::scaling
scaling(x, y, z) ==
    Matrix(4, 4, [r \in 0..3 |-> [c \in 0..3 |->
        IF r # c THEN I(0)
        ELSE (CASE r = 0 -> x [] r = 1 -> y [] r = 2 -> z [] r = 3 -> I(1))]])

\* Matrix::shearing
shearing(xy, xz, yx, yz, zx, zy) ==
    Matrix(4, 4, [r \in 0..3 |-> [c \in 0..3 |->
        IF r = c THEN I(1)
        ELSE CASE r = 0 /\ c = 1 -> xy [] r = 0 /\ c = 2 -> xz
               [] r = 1 /\ c = 0 -> yx [] r = 1 /\ c = 2 -> yz
               [] r = 2 /\ c = 0 -> zx [] r = 2 /\ c = 1 -> zy
               [] OTHER -> I(0)]])

\* Matrix::transpose
transpose(M) ==
    Matrix(M.R, M.R, [row \in 0..M.R-1 |-> [col \in 0..M.R-1 |-> M.data[col][row]]])

\* the loop `for item in 0..C` with `=` in place of the accumulation: what the
\* last item leaves in result.data[row][col]
MulLoop_overwrite(A, B, row, col, item) ==
    IF item = 0 THEN I(0) ELSE Mul(A.data[row][item-1], B.data[item-1][col])

\* the loop `for item in 0..C`, accumulating into result.data[row][col]
RECURSIVE MulLoop(_, _, _, _, _)
MulLoop(A, B, row, col, item) ==
    IF item = 0 THEN I(0)
    ELSE Add(MulLoop(A, B, row, col, item - 1),
             Mul(A.data[row][item-1], B.data[item-1][col]))

\* the product with the operands of two square matrices taken in the other order
MatMul_reversed(A, B) ==
    IF A.R = A.C /\ B.R = B.C /\ A.R = B.R
    THEN Matrix(B.R, A.C, [row \in 0..B.R-1 |-> [col \in 0..A.C-1 |-> MulLoop(B, A, row, col, B.C)]])
    ELSE Matrix(A.R, B.C, [row \in 0..A.R-1 |-> [col \in 0..B.C-1 |-> MulLoop(A, B, row, col, A.C)]])

\* Mul for &Matrix: A is <R, C>, B is <C, Q>, the product is <R, Q>
MatMul(A, B) ==
    Matrix(A.R, B.C, [row \in 0..A.R-1 |-> [col \in 0..B.C-1 |-> MulLoop(A, B, row, col, A.C)]])

\* the loop of submatrix over the indices i..n-1 of f, which skips index skip
\* and appends every other element at the next output position
RECURSIVE SubCopy(_, _, _, _)
SubCopy(f, n, skip, i) ==
    IF i >= n THEN <<>>
    ELSE (IF i # skip THEN <<f[i]>> ELSE <<>>) \o SubCopy(f, n, skip, i + 1)

SeqToFn(s) == [i \in 0..Len(s)-1 |-> s[i+1]]

\* submatrix with row and col taken for each other: it removes row `col` and
\* column `row`
submatrix_swapped(M, row, col, P, Qc) ==
    IF row >= M.R \/ col >= M.C \/ M.R - 1 # P \/ M.C - 1 # Qc THEN None
    ELSE LET rows == SubCopy(M.data, M.R, col, 0)
         IN  Some(Matrix(P, Qc,
                 [r \in 0..P-1 |-> SeqToFn(SubCopy(rows[r+1], M.C, row, 0))]))

\* Submatrix::submatrix, with the size <P, Qc> of the output the caller asks for
submatrix(M, row, col, P, Qc) ==
    IF row >= M.R \/ col >= M.C \/ M.R - 1 # P \/ M.C - 1 # Qc THEN None
    ELSE LET rows == SubCopy(M.data, M.R, row, 0)
         IN  Some(Matrix(P, Qc,
                 [r \in 0..P-1 |-> SeqToFn(SubCopy(rows[r+1], M.C, col, 0))]))

RECURSIVE minor(_, _, _)
RECURSIVE cofactor(_, _, _)
RECURSIVE det(_)
RECURSIVE DetLoop(_, _)

\* Matrix::minor
minor(M, row, col) ==
    CASE M.R = 2 -> det(M)
      [] M.R \in {3, 4} ->
           LET s == submatrix(M, row, col, M.R - 1, M.R - 1)
           IN  IF s = None THEN Panic ELSE det(s.v)
      [] OTHER -> None

\* Matrix::cofactor
cofactor(M, row, col) ==
    IF M.R > 4 THEN None
    ELSE LET min == minor(M, row, col)
         IN  IF ~IsSome(min) THEN Panic
             ELSE IF (row + col) % 2 # 0 THEN Some(Neg(min.v)) ELSE min

\* the loop `for col in 0..R` of det: det = det + data[0][col] * cofactor(0, col)
DetLoop(M, col) ==
    IF col = 0 THEN I(0)
    ELSE Add(DetLoop(M, col - 1), Mul(M.data[0][col-1], cofactor(M, 0, col - 1).v))

\* det with the loop ending one column early: `for col in 0..R - 1`
det_short_loop(M) ==
    CASE M.R = 2 ->
           Some(Sub(Mul(M.data[0][0], M.data[1][1]), Mul(M.data[0][1], M.data[1][0])))
      [] M.R \in {3, 4} -> Some(DetLoop(M, M.R - 1))
      [] OTHER -> None

\* Matrix::det
det(M) ==
    CASE M.R = 2 ->
           Some(Sub(Mul(M.data[0][0], M.data[1][1]), Mul(M.data[0][1], M.data[1][0])))
      [] M.R \in {3, 4} -> Some(DetLoop(M, M.R))
      [] OTHER -> None

\* invert with the index swap left out: m.data[row][col] = c / det
invert_no_swap(M) ==
    IF M.R > 4 THEN None
    ELSE With(det(M), LAMBDA d :
         IF ~IsSome(d) THEN Panic
         ELSE IF d.v = I(0) THEN None
         ELSE Some(Matrix(M.R, M.R,
                 [row \in 0..M.R-1 |-> [col \in 0..M.R-1 |->
                     Div(cofactor(M, row, col).v, d.v)]])))

\* invert with the test of the determinant against 0 left out
invert_no_zero_test(M) ==
    IF M.R > 4 THEN None
    ELSE With(det(M), LAMBDA d :
         IF ~IsSome(d) THEN Panic
         ELSE Some(Matrix(M.R, M.R,
                 [col \in 0..M.R-1 |-> [row \in 0..M.R-1 |->
                     Div(cofactor(M, row, col).v, d.v)]])))

\* Matrix::invert
invert(M) ==
    IF M.R > 4 THEN None
    ELSE With(det(M), LAMBDA d :
         IF ~IsSome(d) THEN Panic
         ELSE IF d.v = I(0) THEN None
         ELSE Some(Matrix(M.R, M.R,
                 [col \in 0..M.R-1 |-> [row \in 0..M.R-1 |->
                     Div(cofactor(M, row, col).v, d.v)]])))

\* to_matrix: the tuple as a 4x1 column
to_matrix(t) ==
    Matrix(4, 1, [r \in 0..3 |->
        [c \in 0..0 |-> CASE r = 0 -> t.x [] r = 1 -> t.y [] r = 2 -> t.z [] r = 3 -> t.w]])

\* to_tuple: the 4x1 column as a tuple
to_tuple(M) ==
    [x |-> M.data[0][0], y |-> M.data[1][0], z |-> M.data[2][0], w |-> M.data[3][0]]

\* ------------------------------------------------------------------ tuple.rs

Tuple(x, y, z, w) == [x |-> x, y |-> y, z |-> z, w |-> w]

\* Tuple::point
point(x, y, z) == Tuple(x, y, z, I(1))

\* Tuple::vector
vector(x, y, z) == Tuple(x, y, z, I(0))

\* Tuple::magnitude
magnitude(t) == Sqrt(Add(Add(Mul(t.x, t.x), Mul(t.y, t.y)), Mul(t.z, t.z)))

\* normalize over all four components
normalize_with_w(t) ==
    With(Sqrt(Add(Add(Add(Mul(t.x, t.x), Mul(t.y, t.y)), Mul(t.z, t.z)), Mul(t.w, t.w))),
         LAMBDA length :
    Tuple(Div(t.x, length), Div(t.y, length), Div(t.z, length), Div(t.w, length)))

\* Tuple::normalize
normalize(t) ==
    With(magnitude(t), LAMBDA length :
    Tuple(Div(t.x, length), Div(t.y, length), Div(t.z, length), I(0)))

\* Add for Tuple
TAdd(a, b) == Tuple(Add(a.x, b.x), Add(a.y, b.y), Add(a.z, b.z), Add(a.w, b.w))

\* Sub for Tuple with w left as the w of the left operand
TSub_keeps_w(a, b) == Tuple(Sub(a.x, b.x), Sub(a.y, b.y), Sub(a.z, b.z), a.w)

\* Sub for Tuple
TSub(a, b) == Tuple(Sub(a.x, b.x), Sub(a.y, b.y), Sub(a.z, b.z), Sub(a.w, b.w))

\* Neg for Tuple
TNeg(a) == Tuple(Neg(a.x), Neg(a.y), Neg(a.z), Neg(a.w))

\* Mul<f64> for Tuple
TScale(a, k) == Tuple(Mul(a.x, k), Mul(a.y, k), Mul(a.z, k), Mul(a.w, k))

\* dot
dot(a, b) ==
    Add(Add(Add(Mul(a.x, b.x), Mul(a.y, b.y)), Mul(a.z, b.z)), Mul(a.w, b.w))

\* cross
cross(a, b) ==
    vector(Sub(Mul(a.y, b.z), Mul(a.z, b.y)),
           Sub(Mul(a.z, b.x), Mul(a.x, b.z)),
           Sub(Mul(a.x, b.y), Mul(a.y, b.x)))

\* reflect
reflect(v, normal) == TSub(v, TScale(TScale(normal, I(2)), dot(v, normal)))

\* ------------------------------------------------------------------ color.rs

\* Color::color
color(r, g, b) == [red |-> r, green |-> g, blue |-> b]

Black == color(I(0), I(0), I(0))

\* Add for Color
CAdd(a, b) == color(Add(a.red, b.red), Add(a.green, b.green), Add(a.blue, b.blue))

\* Mul<f64> for Color
CScale(a, k) == color(Mul(a.red, k), Mul(a.green, k), Mul(a.blue, k))

\* Mul<Color> for Color (Hadamard product)
CMul(a, b) == color(Mul(a.red, b.red), Mul(a.green, b.green), Mul(a.blue, b.blue))

\* ColorU8
ColorU8(r, g, b) == [red |-> r, green |-> g, blue |-> b]

\* normalize_u8_part with an `as u8` that wraps modulo 256
normalize_u8_part_wrapping(part) ==
    With(Mul(part, I(255)), LAMBDA scaled :
    IF scaled.d = 0 THEN 0
    ELSE (IF scaled.n < 0 THEN -1 ELSE 1)
             * ((2 * Abs(scaled.n) + scaled.d) \div (2 * scaled.d)) % 256)

\* normalize_u8_part: (part * 255.0).round() as u8. f64::round rounds half away
\* from zero; `as u8` saturates: NaN gives 0, a value below 0 gives 0 and a value
\* above 255 gives 255
normalize_u8_part(part) ==
    With(Mul(part, I(255)), LAMBDA scaled :
    LET rounded ==
            IF scaled.d = 0 THEN scaled
            ELSE I((IF scaled.n < 0 THEN -1 ELSE 1)
                       * ((2 * Abs(scaled.n) + scaled.d) \div (2 * scaled.d)))
    IN  IF IsNaN(rounded) THEN 0
        ELSE IF Lt(rounded, I(0)) THEN 0
        ELSE IF Gt(rounded, I(255)) THEN 255
        ELSE rounded.n)

\* Color::normalize_u8
normalize_u8(c) ==
    ColorU8(normalize_u8_part(c.red), normalize_u8_part(c.green), normalize_u8_part(c.blue))

\* ------------------------------------------------------------------ shapes.rs, lights.rs

\* Material; shininess is a whole number in the model
Material(c, ambient, diffuse, specular, shininess) ==
    [color |-> c, ambient |-> ambient, diffuse |-> diffuse, specular |-> specular,
     shininess |-> shininess]

\* Sphere (pos and radius are never read by the intersection code)
Sphere(transformation, material) ==
    [pos |-> point(I(0), I(0), I(0)), radius |-> I(1),
     transformation |-> transformation, material |-> material]

\* PointLight::new
PointLight(position, intensity) == [position |-> position, intensity |-> intensity]

\* a function returned x
Ok(x) == [tag |-> "Ok", v |-> x]
IsOk(r) == r.tag = "Ok"

\* Sphere::normal_at
normal_at(sphere, p) ==
    With(invert(sphere.transformation), LAMBDA inv :
    IF ~IsSome(inv) THEN Panic
    ELSE With(MatMul(inv.v, to_matrix(p)), LAMBDA object_point :
         With(TSub(to_tuple(object_point), point(I(0), I(0), I(0))), LAMBDA object_normal :
         With(to_tuple(MatMul(transpose(inv.v), to_matrix(object_normal))),
              LAMBDA world_normal :
         Ok(normalize(world_normal))))))

\* lighting without the tests `light_dot_normal > 0.0`
lighting_no_facing_test(material, light, p, eye_vector, normal) ==
    With(CMul(material.color, light.intensity), LAMBDA effective_color :
    With(CScale(effective_color, material.ambient), LAMBDA ambient :
    With(normalize(TSub(light.position, p)), LAMBDA light_vector :
    With(dot(light_vector, normal), LAMBDA light_dot_normal :
    IF TRUE
    THEN With(CScale(CScale(effective_color, material.diffuse), light_dot_normal),
              LAMBDA diffuse :
         With(normalize(reflect(TNeg(light_vector), normal)), LAMBDA reflect_vector :
         With(dot(reflect_vector, eye_vector), LAMBDA reflect_dot_eye :
         IF Gt(reflect_dot_eye, I(0))
         THEN With(Powf(reflect_dot_eye, material.shininess), LAMBDA factor :
              CAdd(CAdd(ambient, diffuse),
                   CScale(CScale(light.intensity, material.specular), factor)))
         ELSE CAdd(CAdd(ambient, diffuse), Black))))
    ELSE CAdd(CAdd(ambient, Black), Black)))))

\* lighting: diffuse and specular start black; the reflection is looked at only
\* when light_dot_normal > 0.0
lighting(material, light, p, eye_vector, normal) ==
    With(CMul(material.color, light.intensity), LAMBDA effective_color :
    With(CScale(effective_color, material.ambient), LAMBDA ambient :
    With(normalize(TSub(light.position, p)), LAMBDA light_vector :
    With(dot(light_vector, normal), LAMBDA light_dot_normal :
    IF Gt(light_dot_normal, I(0))
    THEN With(CScale(CScale(effective_color, material.diffuse), light_dot_normal),
              LAMBDA diffuse :
         With(normalize(reflect(TNeg(light_vector), normal)), LAMBDA reflect_vector :
         With(dot(reflect_vector, eye_vector), LAMBDA reflect_dot_eye :
         IF Gt(reflect_dot_eye, I(0))
         THEN With(Powf(reflect_dot_eye, material.shininess), LAMBDA factor :
              CAdd(CAdd(ambient, diffuse),
                   CScale(CScale(light.intensity, material.specular), factor)))
         ELSE CAdd(CAdd(ambient, diffuse), Black))))
    ELSE CAdd(CAdd(ambient, Black), Black)))))

\* ------------------------------------------------------------------ rays.rs

\* Ray::new
Ray(origin, direction) == [origin |-> origin, direction |-> direction]

\* Intersection; object is the index in world.objects of the sphere referred to
Intersection(t, object) == [t |-> t, object |-> object]

\* Ray::position
position(ray, t) == TAdd(ray.origin, TScale(ray.direction, t))

\* Ray::transform
transform(ray, M) ==
    Ray(to_tuple(MatMul(M, to_matrix(ray.origin))),
        to_tuple(MatMul(M, to_matrix(ray.direction))))

\* intersects with `discriminant > 0.0`
intersects_no_tangent(ray, objects, object) ==
    With(invert(objects[object].transformation), LAMBDA inv :
    IF ~IsSome(inv) THEN Panic
    ELSE With(transform(ray, inv.v), LAMBDA r :
         With(TSub(r.origin, point(I(0), I(0), I(0))), LAMBDA sphere_to_ray :
         With(dot(r.direction, r.direction), LAMBDA a :
         With(Mul(I(2), dot(r.direction, sphere_to_ray)), LAMBDA b :
         With(Sub(dot(sphere_to_ray, sphere_to_ray), I(1)), LAMBDA c :
         With(Sub(Mul(b, b), Mul(Mul(I(4), a), c)), LAMBDA discriminant :
         IF Gt(discriminant, I(0))
         THEN With(Sqrt(discriminant), LAMBDA root :
              Ok(<<Intersection(Div(Sub(Neg(b), root), Mul(I(2), a)), object),
                   Intersection(Div(Add(Neg(b), root), Mul(I(2), a)), object)>>))
         ELSE Ok(<<>>))))))))

\* Ray::intersects, with the sphere objects[object]
intersects(ray, objects, object) ==
    With(invert(objects[object].transformation), LAMBDA inv :
    IF ~IsSome(inv) THEN Panic
    ELSE With(transform(ray, inv.v), LAMBDA r :
         With(TSub(r.origin, point(I(0), I(0), I(0))), LAMBDA sphere_to_ray :
         With(dot(r.direction, r.direction), LAMBDA a :
         With(Mul(I(2), dot(r.direction, sphere_to_ray)), LAMBDA b :
         With(Sub(dot(sphere_to_ray, sphere_to_ray), I(1)), LAMBDA c :
         With(Sub(Mul(b, b), Mul(Mul(I(4), a), c)), LAMBDA discriminant :
         IF Ge(discriminant, I(0))
         THEN With(Sqrt(discriminant), LAMBDA root :
              Ok(<<Intersection(Div(Sub(Neg(b), root), Mul(I(2), a)), object),
                   Intersection(Div(Add(Neg(b), root), Mul(I(2), a)), object)>>))
         ELSE Ok(<<>>))))))))

\* f64::total_cmp(a, b) = Less (the model's one NaN is ordered last)
TotalLess(a, b) ==
    IF IsNaN(a) THEN FALSE
    ELSE IF IsNaN(b) THEN TRUE
    ELSE Lt(a, b)

\* one element put into a sorted list behind every element that is not greater
RECURSIVE InsertSorted(_, _)
InsertSorted(sorted, e) ==
    IF sorted = <<>> THEN <<e>>
    ELSE IF TotalLess(e.t, sorted[Len(sorted)].t)
         THEN Append(InsertSorted(SubSeq(sorted, 1, Len(sorted) - 1), e), sorted[Len(sorted)])
         ELSE Append(sorted, e)

\* Vec::sort_by(|a, b| a.t.total_cmp(&b.t)): a stable sort
RECURSIVE sort_by_t(_)
sort_by_t(list) ==
    IF list = <<>> THEN <<>>
    ELSE InsertSorted(sort_by_t(SubSeq(list, 1, Len(list) - 1)), list[Len(list)])

\* the loop `for object in &world.objects` of intersections_in_world over the
\* first n objects
RECURSIVE AppendIntersections(_, _, _)
AppendIntersections(ray, objects, n) ==
    IF n = 0 THEN Ok(<<>>)
    ELSE With(AppendIntersections(ray, objects, n - 1), LAMBDA before :
         With(intersects(ray, objects, n), LAMBDA these :
         IF ~IsOk(before) \/ ~IsOk(these) THEN Panic ELSE Ok(before.v \o these.v)))

\* intersections_in_world without the sort
intersections_in_world_unsorted(ray, w) ==
    AppendIntersections(ray, w.objects, Len(w.objects))

\* Ray::intersections_in_world
intersections_in_world(ray, w) ==
    With(AppendIntersections(ray, w.objects, Len(w.objects)), LAMBDA all :
    IF ~IsOk(all) THEN Panic ELSE Ok(sort_by_t(all.v)))

\* the loop of hit over the first n elements: the index held in min_t, 0 for None
RECURSIVE HitLoop(_, _)
HitLoop(intersections, n) ==
    IF n = 0 THEN 0
    ELSE LET min_t == HitLoop(intersections, n - 1)
         IN  IF Ge(intersections[n].t, I(0))
             THEN IF min_t = 0 THEN n
                  ELSE IF Lt(intersections[n].t, intersections[min_t].t) THEN n
                  ELSE min_t
             ELSE min_t

\* the loop of hit with `intersection.t <= min_t.t`
RECURSIVE HitLoopLastOfEqual(_, _)
HitLoopLastOfEqual(intersections, n) ==
    IF n = 0 THEN 0
    ELSE LET min_t == HitLoopLastOfEqual(intersections, n - 1)
         IN  IF Ge(intersections[n].t, I(0))
             THEN IF min_t = 0 THEN n
                  ELSE IF Le(intersections[n].t, intersections[min_t].t) THEN n
                  ELSE min_t
             ELSE min_t

hit_last_of_equal(intersections) ==
    IF intersections = <<>> THEN None
    ELSE LET min_t == HitLoopLastOfEqual(intersections, Len(intersections))
         IN  IF min_t = 0 THEN None ELSE Some(min_t)

\* the loop of hit without the test `intersection.t >= 0.0`
RECURSIVE HitLoopAnySign(_, _)
HitLoopAnySign(intersections, n) ==
    IF n = 0 THEN 0
    ELSE LET min_t == HitLoopAnySign(intersections, n - 1)
         IN  IF min_t = 0 THEN n
             ELSE IF Lt(intersections[n].t, intersections[min_t].t) THEN n
             ELSE min_t

hit_any_sign(intersections) ==
    IF intersections = <<>> THEN None
    ELSE Some(HitLoopAnySign(intersections, Len(intersections)))

\* hit that returns the first intersection of the list with t >= 0
hit_first_ahead(intersections) ==
    LET ahead == {i \in DOMAIN intersections : Ge(intersections[i].t, I(0))}
    IN  IF ahead = {} THEN None
        ELSE Some(CHOOSE i \in ahead : \A j \in ahead : i <= j)

\* hit: the index in the list of the intersection referred to, or None
hit(intersections) ==
    IF intersections = <<>> THEN None
    ELSE LET min_t == HitLoop(intersections, Len(intersections))
         IN  IF min_t = 0 THEN None ELSE Some(min_t)

\* Computation
Computation(t, object, p, eyev, normalv, inside) ==
    [t |-> t, object |-> object, point |-> p, eyev |-> eyev, normalv |-> normalv,
     inside |-> inside]

\* prepare_computation that never flips the normal
prepare_computation_no_flip(ray, objects, intersection) ==
    With(position(ray, intersection.t), LAMBDA pos :
    With(TNeg(ray.direction), LAMBDA eyev :
    With(normal_at(objects[intersection.object], pos), LAMBDA normalv :
    IF ~IsOk(normalv) THEN Panic
    ELSE Ok(Computation(intersection.t, intersection.object, pos, eyev,
                        normalv.v, FALSE)))))

\* prepare_computation that flips the normal when it already faces the eye
prepare_computation_flip_facing(ray, objects, intersection) ==
    With(position(ray, intersection.t), LAMBDA pos :
    With(TNeg(ray.direction), LAMBDA eyev :
    With(normal_at(objects[intersection.object], pos), LAMBDA normalv :
    IF ~IsOk(normalv) THEN Panic
    ELSE IF Gt(dot(normalv.v, eyev), I(0))
         THEN Ok(Computation(intersection.t, intersection.object, pos, eyev,
                             TNeg(normalv.v), TRUE))
         ELSE Ok(Computation(intersection.t, intersection.object, pos, eyev,
                             normalv.v, FALSE)))))

\* Ray::prepare_computation
prepare_computation(ray, objects, intersection) ==
    With(position(ray, intersection.t), LAMBDA pos :
    With(TNeg(ray.direction), LAMBDA eyev :
    With(normal_at(objects[intersection.object], pos), LAMBDA normalv :
    IF ~IsOk(normalv) THEN Panic
    ELSE IF Lt(dot(normalv.v, eyev), I(0))
         THEN Ok(Computation(intersection.t, intersection.object, pos, eyev,
                             TNeg(normalv.v), TRUE))
         ELSE Ok(Computation(intersection.t, intersection.object, pos, eyev,
                             normalv.v, FALSE)))))

\* ------------------------------------------------------------------ world.rs

\* shade_hit reading the light pushed last
shade_hit_last_light(w, computation) ==
    IF Len(w.lights) = 0 THEN Panic
    ELSE Ok(lighting(w.objects[computation.object].material, w.lights[Len(w.lights)],
                     computation.point, computation.eyev, computation.normalv))

\* shade_hit that returns black when the world has no light
shade_hit_dark(w, computation) ==
    IF Len(w.lights) = 0 THEN Ok(Black)
    ELSE Ok(lighting(w.objects[computation.object].material, w.lights[1],
                     computation.point, computation.eyev, computation.normalv))

\* World::shade_hit
shade_hit(w, computation) ==
    IF Len(w.lights) = 0 THEN Panic
    ELSE Ok(lighting(w.objects[computation.object].material, w.lights[1],
                     computation.point, computation.eyev, computation.normalv))

\* World::color_at
color_at(w, ray) ==
    With(intersections_in_world(ray, w), LAMBDA xs :
    IF ~IsOk(xs) THEN Panic
    ELSE With(hit(xs.v), LAMBDA h :
         IF IsSome(h)
         THEN With(prepare_computation(ray, w.objects, xs.v[h.v]), LAMBDA comps :
              IF ~IsOk(comps) THEN Panic ELSE shade_hit(w, comps.v))
         ELSE Ok(Black)))

\* ------------------------------------------------------------------ canvas.rs

\* Canvas::new: every pixel black, the iteration cursor at (0, 0)
Canvas_new(x, y) ==
    [width |-> x, height |-> y,
     pixels |-> [row \in 0..y-1 |-> [col \in 0..x-1 |-> Black]],
     _x |-> 0, _y |-> 0]

\* write_pixel that colors the whole row y
write_pixel_whole_row(canvas, x, y, c) ==
    IF x < canvas.width /\ y < canvas.height
    THEN [canvas EXCEPT !.pixels[y] = [col \in 0..canvas.width-1 |-> c]]
    ELSE canvas

\* write_pixel that moves a coordinate outside the canvas to the last column or row
write_pixel_clamped(canvas, x, y, c) ==
    IF canvas.width = 0 \/ canvas.height = 0 THEN canvas
    ELSE [canvas EXCEPT !.pixels[IF y < canvas.height THEN y ELSE canvas.height - 1]
                                [IF x < canvas.width THEN x ELSE canvas.width - 1] = c]

\* Canvas::write_pixel
write_pixel(canvas, x, y, c) ==
    IF x < canvas.width /\ y < canvas.height
    THEN [canvas EXCEPT !.pixels[y][x] = c]
    ELSE canvas

\* Canvas::read_pixel
read_pixel(canvas, x, y) ==
    IF x < canvas.width /\ y < canvas.height THEN Some(canvas.pixels[y][x]) ELSE None

\* next that walks down the columns: _y advances first and wraps at height
next_column_major(canvas) ==
    IF canvas._x = canvas.width
    THEN [canvas |-> [canvas EXCEPT !._x = 0], out |-> None]
    ELSE [canvas |-> IF canvas._y + 1 = canvas.height
                     THEN [canvas EXCEPT !._y = 0, !._x = canvas._x + 1]
                     ELSE [canvas EXCEPT !._y = canvas._y + 1],
          out |-> read_pixel(canvas, canvas._x, canvas._y)]

\* next that stays exhausted: _y is left at height when None is returned
next_fused(canvas) ==
    IF canvas._y = canvas.height
    THEN [canvas |-> canvas, out |-> None]
    ELSE [canvas |-> IF canvas._x + 1 = canvas.width
                     THEN [canvas EXCEPT !._x = 0, !._y = canvas._y + 1]
                     ELSE [canvas EXCEPT !._x = canvas._x + 1],
          out |-> read_pixel(canvas, canvas._x, canvas._y)]

\* Iterator for Canvas, next: the canvas after the call and what the call returns
next(canvas) ==
    IF canvas._y = canvas.height
    THEN [canvas |-> [canvas EXCEPT !._y = 0], out |-> None]
    ELSE [canvas |-> IF canvas._x + 1 = canvas.width
                     THEN [canvas EXCEPT !._x = 0, !._y = canvas._y + 1]
                     ELSE [canvas EXCEPT !._x = canvas._x + 1],
          out |-> read_pixel(canvas, canvas._x, canvas._y)]

\* ------------------------------------------------------------------ camera.rs

\* Camera::new; the model is given half_view = tan(field_of_view / 2) in place of
\* the angle. usize as f64 is exact.
Camera_new(hsize, vsize, half_view) ==
    LET aspect == Div(I(hsize), I(vsize))
        half_width == IF Ge(aspect, I(1)) THEN half_view ELSE Mul(half_view, aspect)
        half_height == IF Ge(aspect, I(1)) THEN Div(half_view, aspect) ELSE half_view
    IN  [hsize |-> hsize, vsize |-> vsize,
         half_width |-> half_width, half_height |-> half_height,
         pixel_size |-> Div(Mul(half_width, I(2)), I(hsize)),
         half_view |-> half_view,
         transform |-> new_identity(4)]

\* Camera::set_view_transformation
set_view_transformation(cam, from, to, up) ==
    LET forward == normalize(TSub(to, from))
        up_normalized == normalize(up)
        left == cross(forward, up_normalized)
        true_up == cross(left, forward)
        orientation ==
            Matrix(4, 4, [r \in 0..3 |-> [c \in 0..3 |->
                CASE r = 0 -> (CASE c = 0 -> left.x [] c = 1 -> left.y [] c = 2 -> left.z
                                 [] c = 3 -> I(0))
                  [] r = 1 -> (CASE c = 0 -> true_up.x [] c = 1 -> true_up.y
                                 [] c = 2 -> true_up.z [] c = 3 -> I(0))
                  [] r = 2 -> (CASE c = 0 -> Neg(forward.x) [] c = 1 -> Neg(forward.y)
                                 [] c = 2 -> Neg(forward.z) [] c = 3 -> I(0))
                  [] r = 3 -> (IF c = 3 THEN I(1) ELSE I(0))]])
    IN  [cam EXCEPT !.transform =
            MatMul(orientation, translation(Neg(from.x), Neg(from.y), Neg(from.z)))]

\* Camera::ray_for_pixel
ray_for_pixel(cam, x, y) ==
    With(Mul(Add(I(x), Q(1, 2)), cam.pixel_size), LAMBDA x_offset :
    With(Mul(Add(I(y), Q(1, 2)), cam.pixel_size), LAMBDA y_offset :
    With(Sub(cam.half_width, x_offset), LAMBDA world_x :
    With(Sub(cam.half_height, y_offset), LAMBDA world_y :
    With(invert(cam.transform), LAMBDA inv :
    IF ~IsSome(inv) THEN Panic
    ELSE With(to_tuple(MatMul(inv.v, to_matrix(point(world_x, world_y, I(-1))))),
              LAMBDA pixel :
         With(to_tuple(MatMul(inv.v, to_matrix(point(I(0), I(0), I(0))))), LAMBDA origin :
         Ok(Ray(origin, normalize(TSub(pixel, origin)))))))))))

\* the value of `self.vsize - 1` and `self.hsize - 1` (usize) when the subtraction
\* does not go below 0
LoopEnd(size) == size - 1

\* the body of the loops of render with a write that colors the whole row y
RenderPixel_whole_row(cam, w, canvas, x, y) ==
    IF ~IsOk(canvas) THEN Panic
    ELSE With(ray_for_pixel(cam, x, y), LAMBDA ray :
         IF ~IsOk(ray) THEN Panic
         ELSE With(color_at(w, ray.v), LAMBDA c :
              IF ~IsOk(c) THEN Panic
              ELSE Ok(write_pixel_whole_row(canvas.v, x, y, c.v))))

\* the body of the loops of render for the pixel (x, y): the canvas after it
RenderPixel(cam, w, canvas, x, y) ==
    IF ~IsOk(canvas) THEN Panic
    ELSE With(ray_for_pixel(cam, x, y), LAMBDA ray :
         IF ~IsOk(ray) THEN Panic
         ELSE With(color_at(w, ray.v), LAMBDA c :
              IF ~IsOk(c) THEN Panic ELSE Ok(write_pixel(canvas.v, x, y, c.v))))

\* the loops `for y in 0..vsize - 1 { for x in 0..hsize - 1 {..} }` of render, as
\* the first k pixels in the order the loops visit them; cols is the number of
\* pixels the inner loop visits
RECURSIVE RenderLoop(_, _, _, _)
RenderLoop(cam, w, cols, k) ==
    IF k = 0 THEN Ok(Canvas_new(cam.hsize, cam.vsize))
    ELSE RenderPixel(cam, w, RenderLoop(cam, w, cols, k - 1),
                     (k - 1) % cols, (k - 1) \div cols)

\* Camera::render for hsize >= 1 and vsize >= 1
render(cam, w) ==
    RenderLoop(cam, w, LoopEnd(cam.hsize), LoopEnd(cam.vsize) * LoopEnd(cam.hsize))

\* render evaluates a pixel of a camera with hsize * vsize = 0: `self.vsize - 1` or
\* `self.hsize - 1` wrapped to 2^64 - 1 and the loops are set to run that often
Overrun == [tag |-> "Overrun"]

\* Camera::render for every hsize and vsize. `self.vsize - 1` is evaluated on
\* entry, `self.hsize - 1` on each pass of the outer loop; for a size of 0 the
\* subtraction panics in a build with overflow checks (debug) and wraps to
\* 2^64 - 1 in a build without them (release)
render_build(cam, w, build) ==
    IF cam.hsize >= 1 /\ cam.vsize >= 1 THEN render(cam, w)
    ELSE IF cam.vsize = 0
    THEN IF build = "debug" THEN Panic
         ELSE IF cam.hsize = 1 THEN Ok(Canvas_new(cam.hsize, cam.vsize))
         ELSE Overrun
    ELSE IF cam.vsize = 1 THEN Ok(Canvas_new(cam.hsize, cam.vsize))
         ELSE IF build = "debug" THEN Panic
         ELSE Overrun

\* ------------------------------------------------------------------ state

VARIABLES
    m,       \* the matrix the matrix-engine operations are applied to
    world,   \* World: objects (Vec<Sphere>) and lights (Vec<PointLight>)
    camera,  \* Camera
    image,   \* the Canvas returned by the last render, or None
    canvas,  \* the Canvas that write_pixel, read_pixel and next are called on
    writes,  \* history: for each pixel of canvas, the color of the most recent
             \* write_pixel to it (None before its first)
    calls,   \* history: the number of calls of canvas.next() so far
    last     \* the last operation: its name, its arguments and what it returned

canvasVars == <<canvas, writes, calls>>

vars == <<m, world, camera, image, canvas, writes, calls, last>>

\* no canvas of its own: the state of the specifications that have none
NoCanvas ==
    /\ canvas = None
    /\ writes = <<>>
    /\ calls = 0

NoOp == [op |-> "none"]

\* World::new
World_new == [objects |-> <<>>, lights |-> <<>>]

\* ------------------------------------------------------------------ matrix engine, inputs

\* the largest row / column argument tried on minor and cofactor
MaxIndex == 4

Rows4a == {<<1, 0, 0, 0>>, <<2, 0, 0, 1>>, <<1, 2, 3, -1>>, <<-1, 1, 2, 0>>}
Rows4b == {<<0, 1, 0, 0>>, <<0, 2, 0, -1>>, <<2, 1, 0, 1>>, <<1, 2, 3, -1>>}
Rows4c == {<<0, 0, 1, 0>>, <<0, 0, 2, 3>>, <<1, -1, 1, 2>>, <<3, 3, 3, 0>>}
Rows4d == {<<0, 0, 0, 1>>, <<0, 0, 0, 0>>, <<1, 0, 2, 1>>, <<2, -1, 0, 1>>}
Rows3 == {<<1, 0, 0>>, <<0, 2, 1>>, <<-1, 1, 2>>, <<2, 1, 3>>}
Entries2 == {-1, 0, 1, 2}

Matrices4 ==
    {new_init(<<a, b, c, d>>) : a \in Rows4a, b \in Rows4b, c \in Rows4c, d \in Rows4d}
    \cup {new_init(<<<<-5, 2, 6, -8>>, <<1, -5, 1, 8>>, <<7, 7, -6, -7>>, <<1, -3, 7, 4>>>>),
          new_init(<<<<-4, 2, -2, -3>>, <<9, 6, 2, 6>>, <<0, -5, 1, -5>>, <<0, 0, 0, 0>>>>)}
Matrices3 == {new_init(<<a, b, c>>) : a \in Rows3, b \in Rows3, c \in Rows3}
Matrices2 == {new_init(<<<<a, b>>, <<c, d>>>>) : a \in Entries2, b \in Entries2,
                                                  c \in Entries2, d \in Entries2}
Matrices5 ==
    {new(5, 5), new_identity(5),
     new_init(<<<<1, 2, 0, 0, 1>>, <<0, 1, 0, 3, 0>>, <<2, 0, 1, 0, 0>>,
                <<0, 0, 0, 1, 1>>, <<1, 0, 0, 0, 2>>>>)}

\* the sizes 2 to 5 and a 1x1 matrix
MatrixInputs ==
    Matrices2 \cup Matrices3 \cup Matrices4 \cup Matrices5 \cup {new_init(<<<<3>>>>)}

InitMatrix ==
    /\ m \in MatrixInputs
    /\ world = World_new
    /\ camera = None
    /\ image = None
    /\ NoCanvas
    /\ last = NoOp

\* m.det()
DoDet ==
    /\ last = NoOp
    /\ last' = [op |-> "det", out |-> det(m)]
    /\ UNCHANGED <<m, world, camera, image, canvasVars>>

\* m.minor(row, col)
DoMinor ==
    \E row \in 0..MaxIndex, col \in 0..MaxIndex :
        /\ last = NoOp
        /\ last' = [op |-> "minor", row |-> row, col |-> col, out |-> minor(m, row, col)]
        /\ UNCHANGED <<m, world, camera, image, canvasVars>>

\* m.cofactor(row, col)
DoCofactor ==
    \E row \in 0..MaxIndex, col \in 0..MaxIndex :
        /\ last = NoOp
        /\ last' = [op |-> "cofactor", row |-> row, col |-> col, out |-> cofactor(m, row, col)]
        /\ UNCHANGED <<m, world, camera, image, canvasVars>>

\* m.invert()
DoInvert ==
    /\ last = NoOp
    /\ last' = [op |-> "invert", out |-> invert(m)]
    /\ UNCHANGED <<m, world, camera, image, canvasVars>>

\* the operations take &self and leave the matrix as it is: one application per
\* input reaches every state
NextMatrix == DoDet \/ DoMinor \/ DoCofactor \/ DoInvert

SpecMatrix == InitMatrix /\ [][NextMatrix]_vars

\* ------------------------------------------------------------------ scene, inputs

\* the most spheres and the most lights pushed into a world
MaxObjects == 2
MaxLights == 2

Origin == point(I(0), I(0), I(0))

\* materials: Material::new() and the first material of World::default_world, both
\* with the shininess lowered to 2
DefaultMaterial == Material(color(I(1), I(1), I(1)), Q(1, 10), Q(9, 10), Q(9, 10), 2)
GreenMaterial == Material(color(Q(4, 5), I(1), Q(3, 5)), Q(1, 10), Q(7, 10), Q(1, 5), 2)

\* the two spheres of World::default_world
SceneSpheres ==
    {Sphere(new_identity(4), GreenMaterial),
     Sphere(scaling(Q(1, 2), Q(1, 2), Q(1, 2)), DefaultMaterial)}

\* the spheres the rays are intersected with: those two and a sphere moved along z
Spheres ==
    SceneSpheres \cup {Sphere(translation(I(0), I(0), I(2)), DefaultMaterial)}

Lights ==
    {PointLight(point(I(-10), I(10), I(-10)), color(I(1), I(1), I(1))),
     PointLight(Origin, color(I(1), Q(1, 2), I(0)))}

Rays ==
    {Ray(point(I(0), I(0), I(-5)), vector(I(0), I(0), I(1))),
     Ray(point(I(0), I(1), I(-5)), vector(I(0), I(0), I(1))),
     Ray(point(I(0), I(2), I(-5)), vector(I(0), I(0), I(1))),
     Ray(point(I(0), I(0), I(0)), vector(I(0), I(0), I(1))),
     Ray(point(I(0), I(0), I(5)), vector(I(0), I(0), I(1))),
     Ray(point(I(0), I(0), Q(3, 4)), vector(I(0), I(0), I(-1))),
     Ray(point(I(0), I(0), I(-5)), vector(I(0), I(1), I(0))),
     Ray(point(I(0), I(0), I(-5)), vector(I(0), I(0), I(2))),
     Ray(point(I(0), I(0), I(1)), vector(I(0), Q(3, 5), Q(-4, 5)))}

\* cameras: hsize, vsize, tan(field_of_view / 2), and the `from` and `to` of
\* set_view_transformation (up is the y axis)
Cameras ==
    {set_view_transformation(Camera_new(c[1], c[2], c[3]), c[4], c[5],
                             vector(I(0), I(1), I(0))) :
        c \in {<<1, 1, I(1), point(I(0), I(0), I(-5)), Origin>>,
               <<2, 2, I(4), Origin, point(I(0), I(0), I(1))>>,
               <<2, 1, Q(3, 2), Origin, point(I(0), I(0), I(-1))>>,
               <<1, 2, Q(3, 2), point(I(0), I(0), I(-5)), Origin>>,
               <<3, 3, I(1), point(I(0), I(0), I(-5)), Origin>>}}

InitScene ==
    /\ m = new_identity(4)
    /\ world = World_new
    /\ camera = None
    /\ image = None
    /\ NoCanvas
    /\ last = NoOp

\* world.objects.push(sphere) with a sphere of the set S, while the scene is set
\* up: before the first query or render
PushObject(S) ==
    \E sphere \in S :
        /\ last = NoOp
        /\ Len(world.objects) < MaxObjects
        /\ world' = [world EXCEPT !.objects = Append(@, sphere)]
        /\ UNCHANGED <<m, camera, image, canvasVars, last>>

\* world.lights.push(light), while the scene is set up
PushLight ==
    \E light \in Lights :
        /\ last = NoOp
        /\ Len(world.lights) < MaxLights
        /\ world' = [world EXCEPT !.lights = Append(@, light)]
        /\ UNCHANGED <<m, camera, image, canvasVars, last>>

PushSceneObject == PushObject(SceneSpheres)

PushAnyObject == PushObject(Spheres)

\* world.color_at(&ray)
DoColorAt ==
    \E ray \in Rays :
        /\ last = NoOp
        /\ last' = [op |-> "color_at", ray |-> ray, out |-> color_at(world, ray)]
        /\ UNCHANGED <<m, world, camera, image, canvasVars>>

\* the computation color_at prepares for a ray: None when the ray hits nothing
HitComputation(w, ray) ==
    With(intersections_in_world(ray, w), LAMBDA xs :
    IF ~IsOk(xs) THEN Panic
    ELSE With(hit(xs.v), LAMBDA h :
         IF IsSome(h) THEN prepare_computation(ray, w.objects, xs.v[h.v]) ELSE None))

\* world.shade_hit(&computation), the computation prepared from the hit of a ray
DoShadeHit ==
    \E ray \in Rays :
        /\ last = NoOp
        /\ \E comps \in {HitComputation(world, ray)} :
               /\ IsOk(comps)
               /\ last' = [op |-> "shade_hit", computation |-> comps.v,
                           out |-> shade_hit(world, comps.v)]
        /\ UNCHANGED <<m, world, camera, image, canvasVars>>

\* a camera is made and pointed, and the world is rendered with it
\* (ray_trace_world); hsize and vsize are at least 1
Render ==
    \E cam \in Cameras :
        /\ last = NoOp
        /\ cam.hsize >= 1 /\ cam.vsize >= 1
        /\ camera' = cam
        /\ \E out \in {render(cam, world)} :
               /\ last' = [op |-> "render", out |-> out.tag]
               /\ image' = IF IsOk(out) THEN out.v ELSE image
        /\ UNCHANGED <<m, world, canvasVars>>

\* ray.intersects(&world.objects[object])
DoIntersects ==
    \E ray \in Rays, object \in 1..Len(world.objects) :
        /\ last = NoOp
        /\ last' = [op |-> "intersects", ray |-> ray, object |-> object,
                    out |-> intersects(ray, world.objects, object)]
        /\ UNCHANGED <<m, world, camera, image, canvasVars>>

\* ray.intersections_in_world(&world)
DoIntersectionsInWorld ==
    \E ray \in Rays :
        /\ last = NoOp
        /\ last' = [op |-> "intersections_in_world", ray |-> ray,
                    out |-> intersections_in_world(ray, world)]
        /\ UNCHANGED <<m, world, camera, image, canvasVars>>

\* the values of t of the intersections handed to prepare_computation
Distances == {I(4), I(1), I(0), I(-1), Q(1, 2), I(6)}

\* ray.prepare_computation(&Intersection { t, object: &world.objects[object] })
DoPrepareComputation ==
    \E ray \in Rays, object \in 1..Len(world.objects), t \in Distances :
        /\ last = NoOp
        /\ last' = [op |-> "prepare_computation", ray |-> ray,
                    intersection |-> Intersection(t, object),
                    out |-> prepare_computation(ray, world.objects, Intersection(t, object))]
        /\ UNCHANGED <<m, world, camera, image, canvasVars>>

\* the longest list handed to hit
MaxLen == 4

HitTimes == {I(-3), I(-1), I(0), I(2), I(5), I(7)}

RECURSIVE ListsUpTo(_)
ListsUpTo(n) ==
    IF n = 0 THEN {<<>>}
    ELSE LET shorter == ListsUpTo(n - 1)
         IN  shorter \cup {Append(list, Intersection(t, 1)) :
                               list \in {l \in shorter : Len(l) = n - 1}, t \in HitTimes}

\* hit(&intersections)
DoHit ==
    \E intersections \in ListsUpTo(MaxLen) :
        /\ last = NoOp
        /\ last' = [op |-> "hit", intersections |-> intersections,
                    out |-> hit(intersections)]
        /\ UNCHANGED <<m, world, camera, image, canvasVars>>

\* materials whose shininess is small enough for powf to be computed exactly
LightingMaterials ==
    {GreenMaterial, Material(color(I(1), I(1), I(1)), Q(1, 10), Q(9, 10), Q(9, 10), 1)}

LightingLights ==
    {PointLight(at, color(I(1), I(1), I(1))) :
        at \in {point(I(0), I(0), I(-10)), point(I(0), I(6), I(-8)),
                point(I(0), I(0), I(10)), point(I(0), I(10), I(0)),
                point(I(0), I(-6), I(8)), Origin}}
    \cup {PointLight(point(I(0), I(6), I(-8)), color(I(1), Q(1, 2), I(0)))}

EyeVectors ==
    {vector(I(0), I(0), I(-1)), vector(I(0), Q(3, 5), Q(-4, 5)),
     vector(I(0), Q(-3, 5), Q(-4, 5)), vector(I(0), I(0), I(1))}

NormalVectors ==
    {vector(I(0), I(0), I(-1)), vector(I(0), I(1), I(0)), vector(I(0), I(0), I(1))}

\* lighting(&material, &light, &position, &eye_vector, &normal) at the origin
DoLighting ==
    \E material \in LightingMaterials, light \in LightingLights,
       eye_vector \in EyeVectors, normal \in NormalVectors :
        /\ last = NoOp
        /\ last' = [op |-> "lighting", material |-> material, light |-> light,
                    position |-> Origin, eye_vector |-> eye_vector, normal |-> normal,
                    out |-> lighting(material, light, Origin, eye_vector, normal)]
        /\ UNCHANGED <<m, world, camera, image, canvasVars>>

\* The queries below take &self and change nothing, and the scene is set up before
\* them: one query on each world reaches every state.

\* the world and its colors
Next == PushSceneObject \/ PushLight \/ DoColorAt \/ DoShadeHit

Spec == InitScene /\ [][Next]_vars

\* the world rendered through a camera
NextRender == PushSceneObject \/ PushLight \/ Render

SpecRender == InitScene /\ [][NextRender]_vars

\* rays and spheres
NextRay == PushAnyObject \/ DoIntersects \/ DoIntersectionsInWorld \/ DoPrepareComputation

SpecRay == InitScene /\ [][NextRay]_vars

\* hit on lists of intersections
NextHit == DoHit

SpecHit == InitScene /\ [][NextHit]_vars

\* lighting of a surface point
NextLighting == DoLighting

SpecLighting == InitScene /\ [][NextLighting]_vars

\* ------------------------------------------------------------------ matrix engine, claims

\* the matrix of cofactors of a 4x4 matrix, transposed
Adjugate(M) ==
    Matrix(4, 4, [col \in 0..3 |-> [row \in 0..3 |-> cofactor(M, row, col).v]])

ScaledIdentity(k) ==
    Matrix(4, 4, [r \in 0..3 |-> [c \in 0..3 |-> IF r = c THEN k ELSE I(0)]])

\* C9: for a 4x4 matrix M with a determinant other than 0, invert(M) is a matrix N
\* with N[col][row] = cofactor(M, row, col) / det(M); M * N is the identity, M times
\* the transposed matrix of cofactors is det(M) times the identity, and invert(N)
\* is M again.
C9_InvertIsTheInverse ==
    (last.op = "invert" /\ m.R = 4 /\ det(m).v # I(0)) =>
        /\ IsSome(last.out)
        /\ \A row \in 0..3, col \in 0..3 :
               last.out.v.data[col][row] = Div(cofactor(m, row, col).v, det(m).v)
        /\ MatMul(m, last.out.v) = new_identity(4)
        /\ MatMul(m, Adjugate(m)) = ScaledIdentity(det(m).v)
        /\ invert(last.out.v) = Some(m)

\* a 4x4 matrix that is not symmetric, with a determinant other than 0, 1 and -1,
\* has been inverted
C9_Witness ==
    /\ last.op = "invert" /\ m.R = 4 /\ IsSome(last.out)
    /\ det(m).v \notin {I(0), I(1), I(-1)}
    /\ transpose(m) # m
    /\ last.out.v # m

\* C10: for sizes 2 to 4 invert returns None when the determinant is 0 and a
\* matrix when it is not; for a size above 4 det, minor, cofactor and invert each
\* return None, not a value and not an abort.
C10_InvertNoneIffSingular ==
    /\ (last.op = "invert" /\ m.R \in 2..4) =>
           /\ det(m).v = I(0) => last.out = None
           /\ det(m).v # I(0) => IsSome(last.out)
    /\ (last.op \in {"det", "minor", "cofactor", "invert"} /\ m.R > 4) => last.out = None

\* a 4x4 matrix with determinant 0 and rows that are not all 0 has been given to invert
C10_Witness ==
    /\ last.op = "invert" /\ m.R = 4 /\ det(m).v = I(0) /\ last.out = None
    /\ \A r \in 0..2 : \E c \in 0..3 : m.data[r][c] # I(0)

\* data[0][p[0]] * data[1][p[1]] * .. * data[k-1][p[k-1]]
RECURSIVE Along(_, _, _)
Along(data, p, k) == IF k = 0 THEN I(1) ELSE Mul(Along(data, p, k - 1), data[k-1][p[k-1]])

\* the sum over the permutations p in ps of sign(p) * Along(data, p, n); the sign
\* is +1 when p has an even number of inversions and -1 when it has an odd one
RECURSIVE LeibnizSum(_, _, _)
LeibnizSum(data, n, ps) ==
    IF ps = {} THEN I(0)
    ELSE LET p == CHOOSE q \in ps : TRUE
             inversions == {ij \in (0..n-1) \X (0..n-1) : ij[1] < ij[2] /\ p[ij[1]] > p[ij[2]]}
             sign == IF Cardinality(inversions) % 2 = 0 THEN I(1) ELSE I(-1)
         IN  Add(Mul(sign, Along(data, p, n)), LeibnizSum(data, n, ps \ {p}))

\* the determinant of the n x n array data as the sum over the permutations of 0..n-1
Leibniz(data, n) ==
    LeibnizSum(data, n, {p \in [0..n-1 -> 0..n-1] : \A i, j \in 0..n-1 : p[i] = p[j] => i = j})

\* C11: for a matrix of size 2, 3 or 4, det returns the determinant: the sum over
\* the permutations p of sign(p) times the product of the M[i][p[i]]; it is
\* a*d - b*c for size 2 and the sum of M[0][col] * cofactor(M, 0, col) above.
C11_DetIsTheDeterminant ==
    (last.op = "det" /\ m.R \in 2..4) =>
        /\ last.out = Some(Leibniz(m.data, m.R))
        /\ m.R = 2 =>
               last.out.v = Sub(Mul(m.data[0][0], m.data[1][1]),
                                Mul(m.data[0][1], m.data[1][0]))
        /\ m.R = 3 =>
               last.out.v = Add(Add(Mul(m.data[0][0], cofactor(m, 0, 0).v),
                                    Mul(m.data[0][1], cofactor(m, 0, 1).v)),
                                Mul(m.data[0][2], cofactor(m, 0, 2).v))
        /\ m.R = 4 =>
               last.out.v = Add(Add(Add(Mul(m.data[0][0], cofactor(m, 0, 0).v),
                                        Mul(m.data[0][1], cofactor(m, 0, 1).v)),
                                    Mul(m.data[0][2], cofactor(m, 0, 2).v)),
                                Mul(m.data[0][3], cofactor(m, 0, 3).v))

\* det of a 4x4 matrix whose last column of the first row counts: the element and
\* its cofactor are both other than 0
C11_Witness ==
    /\ last.op = "det" /\ m.R = 4 /\ IsSome(last.out)
    /\ last.out.v # I(0)
    /\ m.data[0][3] # I(0)
    /\ cofactor(m, 0, 3).v # I(0)

\* the R x C array data with row `row` and column `col` removed: the rows and the
\* columns that remain keep their order
Removed(data, R, C, row, col) ==
    [i \in 0..R-2 |-> [j \in 0..C-2 |->
        data[IF i >= row THEN i + 1 ELSE i][IF j >= col THEN j + 1 ELSE j]]]

\* C12: for a matrix of size 2, 3 or 4 and row, col inside it, minor returns the
\* determinant of the matrix with that row and that column removed (for size 2 the
\* one element that remains), and cofactor returns the minor, negated when
\* row + col is odd.
C12_MinorIsDetOfSubmatrix ==
    /\ (last.op = "minor" /\ m.R \in 2..4 /\ last.row < m.R /\ last.col < m.R) =>
           last.out = Some(Leibniz(Removed(m.data, m.R, m.R, last.row, last.col), m.R - 1))
    /\ (last.op = "cofactor" /\ m.R \in 2..4 /\ last.row < m.R /\ last.col < m.R) =>
           last.out = Some(Mul(minor(m, last.row, last.col).v,
                               IF (last.row + last.col) % 2 = 0 THEN I(1) ELSE I(-1)))

\* ------------------------------------------------------------------ scene, claims

\* C1: after render returns, the canvas is hsize wide and vsize high and every pixel
\* (x, y) of it, the last row and the last column included, holds the color
\* color_at gives for ray_for_pixel(x, y).
C1_RenderWritesEveryPixel ==
    (last.op = "render" /\ last.out = "Ok") =>
        /\ image.width = camera.hsize
        /\ image.height = camera.vsize
        /\ \A x \in 0..camera.hsize - 1, y \in 0..camera.vsize - 1 :
               \A ray \in {ray_for_pixel(camera, x, y).v} :
                   \A traced \in {color_at(world, ray)} :
                       IsOk(traced) => read_pixel(image, x, y) = Some(traced.v)

\* the intersections of a ray with every object of a world: what intersects
\* returns for each object, with the place in the list it returned
Crossings(w, ray) ==
    UNION {LET found == intersects(ray, w.objects, object).v
           IN  {[t |-> found[k].t, object |-> object, place |-> k] :
                    k \in 1..Len(found)} :
           object \in 1..Len(w.objects)}

\* C2: color_at returns black when the ray has no intersection with t >= 0 with any
\* object of the world; otherwise it returns shade_hit of prepare_computation of an
\* intersection whose t is the smallest of those with t >= 0, so that no
\* intersection with negative t decides the color.
C2_ColorAtShadesNearestHit ==
    last.op = "color_at" =>
        LET ahead == {x \in Crossings(world, last.ray) : Ge(x.t, I(0))}
        IN  IF ahead = {} THEN last.out = Ok(Black)
            ELSE \E x \in ahead :
                    /\ \A y \in ahead : Le(x.t, y.t)
                    /\ last.out =
                           shade_hit(world,
                               prepare_computation(last.ray, world.objects,
                                                   Intersection(x.t, x.object)).v)

C2_Witness ==
    /\ last.op = "color_at"
    /\ IsOk(last.out) /\ last.out.v # Black
    /\ \E x \in Crossings(world, last.ray) : Lt(x.t, I(0))
    /\ \E x \in Crossings(world, last.ray) : Gt(x.t, I(0))

\* the lights a world may hold behind its first light
LaterLights == {<<>>} \cup {<<l>> : l \in Lights}

\* C7: shade_hit and color_at read only the first light: with the same objects and
\* the same first light, whatever lights are stored behind it, the result is the
\* same.
C7_OnlyFirstLightConsulted ==
    Len(world.lights) >= 1 =>
        \A later \in LaterLights :
            LET other == [world EXCEPT !.lights = <<world.lights[1]>> \o later]
            IN  /\ last.op = "color_at" => color_at(other, last.ray) = last.out
                /\ last.op = "shade_hit" => shade_hit(other, last.computation) = last.out

C7_Witness ==
    /\ last.op = "color_at"
    /\ Len(world.lights) = 2
    /\ IsOk(last.out) /\ last.out.v # Black
    /\ color_at([world EXCEPT !.lights = <<world.lights[2]>>], last.ray) # last.out

\* ------------------------------------------------------------------ rays, claims

\* b^2 - 4ac of the quadratic of a ray and a sphere, in the space of the sphere
Discriminant(ray, sphere) ==
    With(transform(ray, invert(sphere.transformation).v), LAMBDA r :
    With(TSub(r.origin, Origin), LAMBDA sphere_to_ray :
    With(dot(r.direction, r.direction), LAMBDA a :
    With(Mul(I(2), dot(r.direction, sphere_to_ray)), LAMBDA b :
    With(Sub(dot(sphere_to_ray, sphere_to_ray), I(1)), LAMBDA c :
    Sub(Mul(b, b), Mul(Mul(I(4), a), c)))))))

\* C4: intersects returns no intersection or two, never one: none exactly when the
\* discriminant is negative, two equal ones when it is 0; the two are in ascending
\* order and both refer to the sphere that was passed in.
C4_IntersectsNoneOrTwo ==
    last.op = "intersects" =>
        LET discriminant == Discriminant(last.ray, world.objects[last.object])
        IN  /\ IsOk(last.out)
            /\ Len(last.out.v) \in {0, 2}
            /\ Len(last.out.v) = 0 <=> Lt(discriminant, I(0))
            /\ Len(last.out.v) = 2 =>
                   /\ Le(last.out.v[1].t, last.out.v[2].t)
                   /\ discriminant = I(0) => last.out.v[1].t = last.out.v[2].t
                   /\ last.out.v[1].object = last.object
                   /\ last.out.v[2].object = last.object

C4_Witness ==
    /\ last.op = "intersects"
    /\ Discriminant(last.ray, world.objects[last.object]) = I(0)
    /\ Len(last.out.v) = 2
    /\ last.out.v[1].t = last.out.v[2].t

\* how often e is in the list
Count(list, e) == Cardinality({i \in DOMAIN list : list[i] = e})

\* C5: intersections_in_world returns the intersections of intersects with every
\* object of the world, each as often as intersects returned it and each with its
\* own object, and nothing else; t never decreases along the list, and entries of
\* equal t are in the order of their objects in world.objects.
C5_IntersectionsInWorldSorted ==
    last.op = "intersections_in_world" =>
        /\ IsOk(last.out)
        /\ \A object \in 1..Len(world.objects) :
               LET found == intersects(last.ray, world.objects, object).v
               IN  \A k \in 1..Len(found) :
                       Count(last.out.v, found[k]) = Count(found, found[k])
        /\ \A i \in 1..Len(last.out.v) :
               /\ last.out.v[i].object \in 1..Len(world.objects)
               /\ Count(intersects(last.ray, world.objects, last.out.v[i].object).v,
                        last.out.v[i]) >= 1
        /\ \A i \in 1..Len(last.out.v) - 1 : Le(last.out.v[i].t, last.out.v[i + 1].t)
        /\ \A i \in 1..Len(last.out.v), j \in 1..Len(last.out.v) :
               (i < j /\ last.out.v[i].t = last.out.v[j].t) =>
                   last.out.v[i].object <= last.out.v[j].object

C5_Witness ==
    /\ last.op = "intersections_in_world"
    /\ IsOk(last.out) /\ Len(last.out.v) = 4
    /\ last.out.v[1].t = last.out.v[2].t
    /\ last.out.v[1].object = 1 /\ last.out.v[2].object = 2
    /\ Lt(last.out.v[2].t, last.out.v[3].t)
    /\ last.out.v[3].object = 1

\* C6: prepare_computation returns the t and the object of the intersection, the
\* point origin + direction * t, eyev = -direction, and, with n the normal of the
\* object at the point: inside and normalv = -n when dot(n, eyev) < 0, and otherwise
\* not inside and normalv = n.
C6_PrepareComputationFlipsInside ==
    last.op = "prepare_computation" =>
        /\ IsOk(last.out)
        /\ last.out.v.t = last.intersection.t
        /\ last.out.v.object = last.intersection.object
        /\ last.out.v.point =
               TAdd(last.ray.origin, TScale(last.ray.direction, last.intersection.t))
        /\ last.out.v.eyev = TNeg(last.ray.direction)
        /\ LET n == normal_at(world.objects[last.intersection.object],
                              last.out.v.point).v
           IN  IF Lt(dot(n, last.out.v.eyev), I(0))
               THEN last.out.v.inside /\ last.out.v.normalv = TNeg(n)
               ELSE ~last.out.v.inside /\ last.out.v.normalv = n

C6_Witness ==
    /\ last.op = "prepare_computation"
    /\ IsOk(last.out)
    /\ last.out.v.inside
    /\ last.out.v.normalv = vector(I(0), I(0), I(-1))
    /\ last.out.v.point = point(I(0), I(0), I(1))

\* C3: hit returns None when the list is empty or every t is negative; otherwise
\* it returns an element of the list whose t is the smallest of those with t >= 0
\* (t = 0 included), the first in the list of the elements with that t.
C3_HitIsFirstSmallestNonNegative ==
    last.op = "hit" =>
        LET list == last.intersections
            ahead == {i \in DOMAIN list : Ge(list[i].t, I(0))}
        IN  IF ahead = {} THEN last.out = None
            ELSE /\ IsSome(last.out)
                 /\ last.out.v \in DOMAIN list
                 /\ last.out.v \in ahead
                 /\ \A j \in ahead : Le(list[last.out.v].t, list[j].t)
                 /\ \A j \in ahead : list[j].t = list[last.out.v].t => last.out.v <= j

C3_Witness ==
    /\ last.op = "hit"
    /\ Len(last.intersections) = 4
    /\ last.intersections[1].t = I(5)
    /\ last.intersections[2].t = I(-3)
    /\ last.intersections[3].t = I(2)
    /\ last.intersections[4].t = I(2)
    /\ last.out = Some(3)

\* C8: when dot(normalize(light.position - point), normalv) <= 0 the result of
\* lighting is exactly material.color * light.intensity * material.ambient; the
\* specular term is black, the result being ambient + diffuse, unless that dot
\* product is > 0 and dot(reflect(-light_vector, normalv), eyev) > 0.
C8_LightingBehindSurfaceIsAmbient ==
    last.op = "lighting" =>
        LET effective_color == CMul(last.material.color, last.light.intensity)
            ambient == CScale(effective_color, last.material.ambient)
            light_vector == normalize(TSub(last.light.position, last.position))
            light_dot_normal == dot(light_vector, last.normal)
            reflect_dot_eye == dot(reflect(TNeg(light_vector), last.normal),
                                   last.eye_vector)
            diffuse == CScale(CScale(effective_color, last.material.diffuse),
                              light_dot_normal)
        IN  /\ Le(light_dot_normal, I(0)) => last.out = ambient
            /\ last.out # CAdd(ambient, IF Gt(light_dot_normal, I(0)) THEN diffuse
                                        ELSE Black) =>
                   Gt(light_dot_normal, I(0)) /\ Gt(reflect_dot_eye, I(0))

C8_Witness ==
    /\ last.op = "lighting"
    /\ Lt(dot(normalize(TSub(last.light.position, last.position)), last.normal), I(0))
    /\ Gt(dot(reflect(TNeg(normalize(TSub(last.light.position, last.position))),
                      last.normal), last.eye_vector), I(0))
    /\ last.out = CScale(CMul(last.material.color, last.light.intensity),
                         last.material.ambient)
    /\ last.out # Black

\* ------------------------------------------------------------------ submatrix

\* matrices given to submatrix: square ones, those of the tests included, and
\* ones with more rows than columns and more columns than rows
SubmatrixInputs ==
    Matrices3
    \cup {new_init(<<<<1, 5, 0>>, <<-3, 2, 7>>, <<0, 6, -3>>>>),
          new_init(<<<<-6, 1, 1, 6>>, <<-8, 5, 8, 6>>, <<-1, 0, 8, 2>>, <<-7, 1, -1, 1>>>>),
          new_init(<<<<1, 2>>, <<3, 4>>>>),
          new_init(<<<<7>>>>),
          new_init(<<<<1, 2, 3>>, <<4, 5, 6>>>>),
          new_init(<<<<1, 2>>, <<3, 4>>, <<5, 6>>, <<7, 8>>>>),
          new_init(<<<<1>>, <<2>>, <<3>>, <<4>>>>)}

\* the sizes asked of the output for an input side of n: one less, and around it
OutSizes(n) == {k \in {n - 2, n - 1, n} : k >= 0}

InitSubmatrix ==
    /\ m \in SubmatrixInputs
    /\ world = World_new
    /\ camera = None
    /\ image = None
    /\ NoCanvas
    /\ last = NoOp

\* let s: Option<Matrix<P, Q>> = m.submatrix(row, col)
DoSubmatrix ==
    \E row \in 0..MaxIndex, col \in 0..MaxIndex, P \in OutSizes(m.R), Qc \in OutSizes(m.C) :
        /\ last = NoOp
        /\ last' = [op |-> "submatrix", row |-> row, col |-> col, P |-> P, Q |-> Qc,
                    out |-> submatrix(m, row, col, P, Qc)]
        /\ UNCHANGED <<m, world, camera, image, canvasVars>>

NextSubmatrix == DoSubmatrix

SpecSubmatrix == InitSubmatrix /\ [][NextSubmatrix]_vars

\* C13: submatrix on an R x C matrix, asked for a P x Q result, returns None when
\* row >= R, col >= C, P # R - 1 or Q # C - 1; otherwise it returns the
\* (R-1) x (C-1) matrix S with S[i][j] = M[i + (1 if i >= row)][j + (1 if j >= col)].
C13_SubmatrixRemovesRowAndColumn ==
    (last.op = "submatrix") =>
        IF last.row >= m.R \/ last.col >= m.C \/ last.P # m.R - 1 \/ last.Q # m.C - 1
        THEN last.out = None
        ELSE last.out = Some(Matrix(m.R - 1, m.C - 1,
                                    Removed(m.data, m.R, m.C, last.row, last.col)))

\* an inner row and another inner column have been removed from a 4x4 matrix
C13_Witness ==
    /\ last.op = "submatrix" /\ IsSome(last.out)
    /\ m.R = 4 /\ m.C = 4
    /\ last.row = 2 /\ last.col = 1
    /\ last.out.v.data[1][1] = m.data[1][2]
    /\ last.out.v.data[2][0] = m.data[3][0]

\* ------------------------------------------------------------------ products and transforms

\* transform matrices, those of the tests included
Transforms ==
    {new_identity(4),
     translation(I(10), I(5), I(7)),
     scaling(I(5), I(5), I(5)),
     scaling(Q(1, 2), I(2), I(-1)),
     shearing(I(0), I(0), I(0), I(0), I(0), I(1))}

\* the operands of a product: 4x4 matrices, smaller square ones and ones that are
\* not square
MulInputs ==
    Transforms
    \cup {new_init(<<<<1, 2, 3, 4>>, <<5, 6, 7, 8>>, <<9, 8, 7, 6>>, <<5, 4, 3, 2>>>>),
          new_init(<<<<-2, 1, 2, 3>>, <<3, 2, 1, -1>>, <<4, 3, 6, 5>>, <<1, 2, 7, 8>>>>),
          new_init(<<<<1, 2>>, <<3, 4>>>>),
          new_init(<<<<0, 1>>, <<-1, 2>>>>),
          new_init(<<<<1, 2, 3>>, <<4, 5, 6>>>>),
          new_init(<<<<1, -1>>, <<0, 2>>, <<3, 1>>>>),
          new_init(<<<<2, 0, 1>>, <<1, 3, -1>>, <<0, 1, 1>>>>),
          new_init(<<<<1>>, <<2>>, <<3>>, <<4>>>>)}

TuplePoints ==
    {point(I(-3), I(4), I(5)), point(I(1), I(0), I(1)), point(I(0), I(0), I(0)),
     point(Q(1, 2), I(-2), I(3))}

TupleVectors ==
    {vector(I(-3), I(4), I(5)), vector(I(0), I(1), I(0)), vector(I(0), I(0), I(0)),
     vector(Q(1, 2), I(-2), I(3))}

\* the x, y and z given to translation
Offsets == {I(0), I(5), I(-3), Q(1, 2)}

InitTransform ==
    /\ m \in MulInputs
    /\ world = World_new
    /\ camera = None
    /\ image = None
    /\ NoCanvas
    /\ last = NoOp

\* &m * &B
DoMul ==
    \E B \in MulInputs :
        /\ last = NoOp
        /\ m.C = B.R
        /\ last' = [op |-> "mul", rhs |-> B, out |-> MatMul(m, B)]
        /\ UNCHANGED <<m, world, camera, image, canvasVars>>

\* &m * &t for a Tuple t: self * &to_matrix(t)
DoMulTuple ==
    \E t \in TuplePoints \cup TupleVectors :
        /\ last = NoOp
        /\ m.R = 4 /\ m.C = 4
        /\ last' = [op |-> "mul_tuple", t |-> t, out |-> MatMul(m, to_matrix(t))]
        /\ UNCHANGED <<m, world, camera, image, canvasVars>>

\* let t = &(&T3 * &T2) * &T1; &t * &p
DoChain ==
    \E T3 \in Transforms, T2 \in Transforms, T1 \in Transforms :
        \E t \in {MatMul(MatMul(T3, T2), T1)} :
            \E p \in TuplePoints :
                /\ last = NoOp
                /\ m' = t
                /\ last' = [op |-> "chain", t1 |-> T1, t2 |-> T2, t3 |-> T3, p |-> p,
                            out |-> MatMul(t, to_matrix(p))]
                /\ UNCHANGED <<world, camera, image, canvasVars>>

\* let transform = Matrix::translation(x, y, z); let moved = &transform * &t;
\* &transform.invert().unwrap() * &moved
DoTranslate ==
    \E x \in Offsets, y \in Offsets, z \in Offsets :
        \E moving \in {translation(x, y, z)} :
            \E inv \in {invert(moving)}, t \in TuplePoints \cup TupleVectors :
                \E moved \in {MatMul(moving, to_matrix(t))} :
                    /\ last = NoOp
                    /\ m' = moving
                    /\ last' = [op |-> "translate", x |-> x, y |-> y, z |-> z, t |-> t,
                                out |-> moved,
                                back |-> IF IsSome(inv) THEN Ok(MatMul(inv.v, moved))
                                         ELSE Panic]
                    /\ UNCHANGED <<world, camera, image, canvasVars>>

NextTransform == DoMul \/ DoMulTuple \/ DoChain \/ DoTranslate

SpecTransform == InitTransform /\ [][NextTransform]_vars

\* A[i][C-1] * B[C-1][j] + (.. + (A[i][k] * B[k][j] + 0)): the sum of the products
\* of row i of A and column j of B from item k on
RECURSIVE RowByColumn(_, _, _, _, _)
RowByColumn(A, B, i, j, k) ==
    IF k >= A.C THEN I(0)
    ELSE Add(Mul(A.data[i][k], B.data[k][j]), RowByColumn(A, B, i, j, k + 1))

\* C14: the product of an R x C matrix A and a C x Q matrix B is the R x Q matrix
\* with result[i][j] the sum over k of A[i][k] * B[k][j]; a 4x4 matrix times the
\* identity is the matrix itself; a 4x4 matrix times a Tuple is the matrix times
\* the 4x1 column (x, y, z, w).
C14_ProductIsRowByColumn ==
    /\ (last.op = "mul") =>
           /\ last.out.R = m.R /\ last.out.C = last.rhs.C
           /\ DOMAIN last.out.data = 0..m.R-1
           /\ \A i \in 0..m.R-1 :
                  /\ DOMAIN last.out.data[i] = 0..last.rhs.C-1
                  /\ \A j \in 0..last.rhs.C-1 :
                         last.out.data[i][j] = RowByColumn(m, last.rhs, i, j, 0)
           /\ (m.R = 4 /\ last.rhs = new_identity(4)) => last.out = m
    /\ (last.op = "mul_tuple") =>
           /\ last.out.R = 4 /\ last.out.C = 1
           /\ \A i \in 0..3 :
                  last.out.data[i][0] =
                      Add(Add(Add(Mul(m.data[i][0], last.t.x), Mul(m.data[i][1], last.t.y)),
                              Mul(m.data[i][2], last.t.z)),
                          Mul(m.data[i][3], last.t.w))

\* a 2x3 matrix has been multiplied by a 3x2 matrix
C14_Witness ==
    /\ last.op = "mul"
    /\ m.R = 2 /\ m.C = 3 /\ last.rhs.C = 2
    /\ \A i \in 0..1, j \in 0..1 : last.out.data[i][j] # I(0)

\* C15: chained transforms apply right to left: ((T3 * T2) * T1) * p is
\* T3 * (T2 * (T1 * p)), T1 first, then T2, then T3; and the order matters: the
\* scaling by 5 and the translation by (10, 5, 7) of the tests, applied to the
\* point (1, 0, 1), give different points in the two orders.
C15_ChainAppliesRightToLeft ==
    /\ (last.op = "chain") =>
           /\ m = MatMul(MatMul(last.t3, last.t2), last.t1)
           /\ last.out = MatMul(last.t3, MatMul(last.t2, MatMul(last.t1, to_matrix(last.p))))
    /\ LET S == scaling(I(5), I(5), I(5))
           T == translation(I(10), I(5), I(7))
           p == to_matrix(point(I(1), I(0), I(1)))
       IN  /\ MatMul(MatMul(T, S), p) = MatMul(T, MatMul(S, p))
           /\ MatMul(MatMul(S, T), p) = MatMul(S, MatMul(T, p))
           /\ MatMul(MatMul(T, S), p) # MatMul(MatMul(S, T), p)

\* three different transforms, none the identity, have been chained and applied,
\* and the other order of the three gives another point
C15_Witness ==
    /\ last.op = "chain"
    /\ Cardinality({last.t1, last.t2, last.t3, new_identity(4)}) = 4
    /\ last.out # MatMul(MatMul(MatMul(last.t1, last.t2), last.t3), to_matrix(last.p))
    /\ last.out # to_matrix(last.p)

\* C16: translation(x, y, z) times a point P is the point (P.x + x, P.y + y,
\* P.z + z) with w = 1; times a vector V it is V; and the inverse that invert
\* computes for it takes the moved point back to P.
C16_TranslationMovesPoints ==
    (last.op = "translate") =>
        /\ last.t.w = I(1) =>
               /\ last.out = to_matrix(Tuple(Add(last.t.x, last.x), Add(last.t.y, last.y),
                                             Add(last.t.z, last.z), I(1)))
               /\ last.back = Ok(to_matrix(last.t))
        /\ last.t.w = I(0) => last.out = to_matrix(last.t)

\* a point has been moved along all three axes and taken back
C16_Witness ==
    /\ last.op = "translate"
    /\ last.t.w = I(1)
    /\ I(0) \notin {last.x, last.y, last.z}
    /\ Cardinality({last.x, last.y, last.z}) = 3
    /\ to_tuple(last.out).x # last.t.x
    /\ to_tuple(last.out).y # last.t.y
    /\ to_tuple(last.out).z # last.t.z
    /\ IsOk(last.back) /\ to_tuple(last.back.v) = last.t

\* ------------------------------------------------------------------ tuples

\* a + b
DoTupleAdd ==
    \E a \in TuplePoints \cup TupleVectors, b \in TuplePoints \cup TupleVectors :
        /\ last = NoOp
        /\ last' = [op |-> "tuple_add", a |-> a, b |-> b, out |-> TAdd(a, b)]
        /\ UNCHANGED <<m, world, camera, image, canvasVars>>

\* a - b
DoTupleSub ==
    \E a \in TuplePoints \cup TupleVectors, b \in TuplePoints \cup TupleVectors :
        /\ last = NoOp
        /\ last' = [op |-> "tuple_sub", a |-> a, b |-> b, out |-> TSub(a, b)]
        /\ UNCHANGED <<m, world, camera, image, canvasVars>>

NextTuple == DoTupleAdd \/ DoTupleSub

SpecTuple == InitScene /\ [][NextTuple]_vars

\* C17: + and - on tuples act on x, y, z and w one by one, so with w = 1 for a
\* point and w = 0 for a vector: point - point is a vector, point + vector and
\* point - vector are points, vector + vector and vector - vector are vectors;
\* Tuple::point gives w = 1 and Tuple::vector gives w = 0.
C17_TupleSumsKeepTheKind ==
    /\ (last.op = "tuple_add") =>
           /\ last.out = [x |-> Add(last.a.x, last.b.x), y |-> Add(last.a.y, last.b.y),
                          z |-> Add(last.a.z, last.b.z), w |-> Add(last.a.w, last.b.w)]
           /\ (last.a.w = I(1) /\ last.b.w = I(0)) => last.out.w = I(1)
           /\ (last.a.w = I(0) /\ last.b.w = I(0)) => last.out.w = I(0)
    /\ (last.op = "tuple_sub") =>
           /\ last.out = [x |-> Sub(last.a.x, last.b.x), y |-> Sub(last.a.y, last.b.y),
                          z |-> Sub(last.a.z, last.b.z), w |-> Sub(last.a.w, last.b.w)]
           /\ (last.a.w = I(1) /\ last.b.w = I(1)) => last.out.w = I(0)
           /\ (last.a.w = I(1) /\ last.b.w = I(0)) => last.out.w = I(1)
           /\ (last.a.w = I(0) /\ last.b.w = I(0)) => last.out.w = I(0)
    /\ \A x \in Offsets, y \in Offsets, z \in Offsets :
           /\ point(x, y, z) = [x |-> x, y |-> y, z |-> z, w |-> I(1)]
           /\ vector(x, y, z) = [x |-> x, y |-> y, z |-> z, w |-> I(0)]

\* a point has been subtracted from another point
C17_Witness ==
    /\ last.op = "tuple_sub"
    /\ last.a.w = I(1) /\ last.b.w = I(1)
    /\ last.a # last.b
    /\ last.out.w = I(0)
    /\ I(0) \notin {last.out.x, last.out.y, last.out.z}

\* ------------------------------------------------------------------ canvas

\* the largest x and y given to write_pixel and read_pixel
MaxCoord == 2
\* the most calls of next on one canvas
MaxCalls == 5

\* width and height of the canvases
CanvasSizes == {<<1, 1>>, <<2, 1>>, <<1, 2>>, <<2, 2>>, <<2, 0>>, <<0, 1>>}

\* the colors written
CanvasColors == {color(I(1), I(0), I(0)), Black}

InitCanvas ==
    /\ m = new_identity(4)
    /\ world = World_new
    /\ camera = None
    /\ image = None
    /\ \E size \in CanvasSizes :
           /\ canvas = Canvas_new(size[1], size[2])
           /\ writes = [p \in (0..size[1]-1) \X (0..size[2]-1) |-> None]
    /\ calls = 0
    /\ last = NoOp

\* canvas.write_pixel(x, y, c)
DoWritePixel ==
    \E x \in 0..MaxCoord, y \in 0..MaxCoord, c \in CanvasColors :
        /\ canvas' = write_pixel(canvas, x, y, c)
        /\ writes' = [p \in DOMAIN writes |-> IF p = <<x, y>> THEN Some(c) ELSE writes[p]]
        /\ last' = [op |-> "write_pixel", x |-> x, y |-> y, c |-> c]
        /\ UNCHANGED <<m, world, camera, image, calls>>

\* canvas.read_pixel(x, y)
DoReadPixel ==
    \E x \in 0..MaxCoord, y \in 0..MaxCoord :
        /\ last' = [op |-> "read_pixel", x |-> x, y |-> y, out |-> read_pixel(canvas, x, y)]
        /\ UNCHANGED <<m, world, camera, image, canvasVars>>

\* canvas.next()
DoNext ==
    /\ calls < MaxCalls
    /\ \E r \in {next(canvas)} :
           /\ canvas' = r.canvas
           /\ calls' = calls + 1
           /\ last' = [op |-> "next", out |-> r.out]
    /\ UNCHANGED <<m, world, camera, image, writes>>

NextCanvas == DoWritePixel \/ DoReadPixel \/ DoNext

SpecCanvas == InitCanvas /\ [][NextCanvas]_vars

\* C18: on a canvas of width w and height h, after any write_pixel calls,
\* read_pixel(x, y) with x < w and y < h returns Some of the color of the most
\* recent write_pixel to (x, y), Some(black) when there was none: a write changes
\* the pixel it names and no other.
C18_ReadReturnsLastWrite ==
    /\ canvas.width * canvas.height = Cardinality(DOMAIN writes)
    /\ \A x \in 0..canvas.width-1, y \in 0..canvas.height-1 :
           read_pixel(canvas, x, y) =
               (IF IsSome(writes[<<x, y>>]) THEN writes[<<x, y>>] ELSE Some(Black))
    /\ (last.op = "read_pixel" /\ last.x < canvas.width /\ last.y < canvas.height) =>
           last.out = (IF IsSome(writes[<<last.x, last.y>>]) THEN writes[<<last.x, last.y>>]
                       ELSE Some(Black))
    /\ (last.op = "write_pixel" /\ last.x < canvas.width /\ last.y < canvas.height) =>
           read_pixel(canvas, last.x, last.y) = Some(last.c)

\* a pixel that was written red has been written black again while another pixel
\* of its row is red and a third pixel was never written
C18_Witness ==
    /\ canvas.width = 2 /\ canvas.height = 2
    /\ last.op = "write_pixel" /\ last.x = 0 /\ last.y = 1 /\ last.c = Black
    /\ read_pixel(canvas, 1, 1) = Some(color(I(1), I(0), I(0)))
    /\ writes[<<1, 0>>] = None
    /\ calls > 0

\* C19: write_pixel(x, y, c) with x >= width or y >= height returns and leaves the
\* canvas as it was, every pixel included; read_pixel(x, y) with x >= width or
\* y >= height returns None.
C19_OutOfBoundsIsHarmless ==
    [][/\ (last'.op = "write_pixel" /\ (last'.x >= canvas.width \/ last'.y >= canvas.height)) =>
              /\ canvas' = canvas
              /\ \A x \in 0..canvas.width-1, y \in 0..canvas.height-1 :
                     read_pixel(canvas', x, y) = read_pixel(canvas, x, y)
       /\ (last'.op = "read_pixel" /\ (last'.x >= canvas.width \/ last'.y >= canvas.height)) =>
              last'.out = None]_vars

\* a write outside a 2x1 canvas, below a pixel that is red, and one to the right
\* of the canvas have been made
C19_Witness ==
    /\ canvas.width = 2 /\ canvas.height = 1
    /\ last.op = "write_pixel" /\ last.c = Black
    /\ last.x = 1 /\ last.y = 1
    /\ read_pixel(canvas, 1, 0) = Some(color(I(1), I(0), I(0)))
    /\ read_pixel(canvas, 2, 0) = None

\* C20: on a canvas with width >= 1, call k of next (k from 0) returns
\* read_pixel(k mod width, k div width) for k < width * height and None for
\* k = width * height: width * height colors, rows from the top and each row from
\* the left, every pixel once, then None.
C20_NextIsRowMajor ==
    (canvas.width >= 1) =>
        /\ calls <= canvas.width * canvas.height =>
               /\ canvas._x = calls % canvas.width
               /\ canvas._y = calls \div canvas.width
        /\ (last.op = "next" /\ calls <= canvas.width * canvas.height) =>
               /\ IsSome(last.out)
               /\ last.out = read_pixel(canvas, (calls - 1) % canvas.width,
                                                (calls - 1) \div canvas.width)
        /\ (last.op = "next" /\ calls = canvas.width * canvas.height + 1) =>
               last.out = None

\* the second call of next on a 2x2 canvas whose pixel (1, 0) is red and whose
\* pixel (0, 1) is black has returned red
C20_Witness ==
    /\ canvas.width = 2 /\ canvas.height = 2
    /\ last.op = "next" /\ calls = 2
    /\ last.out = Some(color(I(1), I(0), I(0)))
    /\ read_pixel(canvas, 1, 0) = last.out
    /\ read_pixel(canvas, 0, 1) = Some(Black)

\* ------------------------------------------------------------------ colors to bytes

\* channel values: those of the test normalize_parts, values next to 0 and to 1,
\* ties, values far outside 0..1 and the values that are not finite
Channels ==
    {Q(-101, 10), Q(-1, 10), Q(-1, 400), I(0), Q(1, 510), Q(1, 10), Q(3, 10), Q(1, 2),
     Q(7, 10), Q(9, 10), I(1), Q(256, 255), Q(11, 10), I(2), I(300), Q(1, 0), Q(-1, 0), NaN}

\* color.normalize_u8()
DoNormalizeU8 ==
    \E r \in Channels, g \in Channels, b \in Channels :
        /\ last = NoOp
        /\ last' = [op |-> "normalize_u8", color |-> color(r, g, b),
                    out |-> normalize_u8(color(r, g, b))]
        /\ UNCHANGED <<m, world, camera, image, canvasVars>>

SpecColor == InitScene /\ [][DoNormalizeU8]_vars

\* round(clamp(c, 0, 1) * 255), half away from zero, for a channel value c that
\* is not NaN
ClampedByte(c) ==
    IF Le(c, I(0)) THEN 0
    ELSE IF Ge(c, I(1)) THEN 255
    ELSE (2 * 255 * c.n + c.d) \div (2 * c.d)

\* C21: normalize_u8 gives for each channel value c the byte
\* round(clamp(c, 0, 1) * 255), ties away from zero: 0 for c <= 0, 255 for c >= 1
\* (no wrap-around modulo 256), in between growing with c, and 128 for 0.5.
C21_BytesAreClampedAndRounded ==
    /\ (last.op = "normalize_u8") =>
           /\ \A part \in {<<last.color.red, last.out.red>>,
                           <<last.color.green, last.out.green>>,
                           <<last.color.blue, last.out.blue>>} :
                  /\ part[2] \in 0..255
                  /\ ~IsNaN(part[1]) => part[2] = ClampedByte(part[1])
                  /\ Le(part[1], I(0)) => part[2] = 0
                  /\ Ge(part[1], I(1)) => part[2] = 255
                  /\ part[1] = Q(1, 2) => part[2] = 128
           /\ Le(last.color.red, last.color.green) => last.out.red <= last.out.green
           /\ Le(last.color.green, last.color.blue) => last.out.green <= last.out.blue

\* a color with one channel below 0, one strictly between 0 and 1 that is a tie,
\* and one above 1 whose product with 255 rounds to 256 has been converted
C21_Witness ==
    /\ last.op = "normalize_u8"
    /\ last.color = color(Q(-1, 10), Q(3, 10), Q(256, 255))
    /\ last.out = ColorU8(0, 77, 255)

\* ------------------------------------------------------------------ singular transforms

\* the unit sphere and a sphere flattened by scaling(1, 0, 1): determinant 0
BrokenSpheres ==
    {Sphere(new_identity(4), GreenMaterial),
     Sphere(scaling(I(1), I(0), I(1)), DefaultMaterial)}

PushBrokenObject == PushObject(BrokenSpheres)

\* world.objects[object].normal_at(&p)
DoNormalAt ==
    \E object \in 1..Len(world.objects),
       p \in TuplePoints \cup {point(I(0), I(1), I(0)), point(I(0), I(0), I(3))} :
        /\ last = NoOp
        /\ last' = [op |-> "normal_at", object |-> object, p |-> p,
                    out |-> normal_at(world.objects[object], p)]
        /\ UNCHANGED <<m, world, camera, image, canvasVars>>

SpecFatal ==
    InitScene /\ [][PushBrokenObject \/ PushLight \/ DoIntersects \/ DoNormalAt
                        \/ DoColorAt \/ Render]_vars

\* the objects of the world whose transform has determinant 0
Singular(w) == {object \in 1..Len(w.objects) : det(w.objects[object].transformation).v = I(0)}

\* C22: intersects and normal_at on a sphere whose transform has determinant 0
\* terminate the program; so do color_at, for every ray, and render, for every
\* camera, on a world that holds such a sphere: neither returns.
C22_SingularTransformIsFatal ==
    /\ (last.op \in {"intersects", "normal_at"} /\ last.object \in Singular(world)) =>
           last.out = Panic
    /\ (last.op = "color_at" /\ Singular(world) # {}) => last.out = Panic
    /\ (last.op = "render" /\ Singular(world) # {}) => last.out = "Panic"

\* ------------------------------------------------------------------ normals

SpecNormal == InitScene /\ [][PushAnyObject \/ DoNormalAt]_vars

\* transpose(inverse(transformation)) * (inverse(transformation) * p - origin)
WorldNormal(sphere, p) ==
    With(invert(sphere.transformation).v, LAMBDA inv :
    to_tuple(MatMul(transpose(inv),
                    to_matrix(TSub(to_tuple(MatMul(inv, to_matrix(p))),
                                   point(I(0), I(0), I(0)))))))

\* C24: normal_at returns a vector, w = 0, also for a sphere with a translation,
\* where the product with the transposed inverse has w # 0; its x, y, z are those
\* of that product divided by the length of (x, y, z).
C24_NormalIsAVector ==
    last.op = "normal_at" =>
        With(WorldNormal(world.objects[last.object], last.p), LAMBDA n :
        With(Sqrt(Add(Add(Mul(n.x, n.x), Mul(n.y, n.y)), Mul(n.z, n.z))), LAMBDA length :
            /\ IsOk(last.out)
            /\ last.out.v.w = I(0)
            /\ last.out.v.x = Div(n.x, length)
            /\ last.out.v.y = Div(n.y, length)
            /\ last.out.v.z = Div(n.z, length)))

\* a normal on the translated sphere: the product has w = -6, the result w = 0
C24_Witness ==
    /\ last.op = "normal_at"
    /\ last.p = point(I(-3), I(4), I(5))
    /\ world.objects[last.object].transformation = translation(I(0), I(0), I(2))
    /\ WorldNormal(world.objects[last.object], last.p).w = I(-6)
    /\ last.out.v.w = I(0)
    /\ ~IsNaN(last.out.v.x)

\* ------------------------------------------------------------------ pixels in any order

\* render is entered: the canvas is made, no pixel is evaluated yet. pending holds
\* the pixels the loops of render visit
StartRender ==
    \E cam \in Cameras :
        /\ last = NoOp
        /\ cam.hsize >= 1 /\ cam.vsize >= 1
        /\ camera' = cam
        /\ image' = Canvas_new(cam.hsize, cam.vsize)
        /\ last' = [op |-> "rendering", camera |-> cam, world |-> world, out |-> "Ok",
                    pending |-> (0..LoopEnd(cam.hsize) - 1) \X (0..LoopEnd(cam.vsize) - 1)]
        /\ UNCHANGED <<m, world, canvasVars>>

\* the body of the loops of render is evaluated for one of the pixels that are left
EvalPixel ==
    /\ last.op = "rendering"
    /\ last.out = "Ok"
    /\ \E p \in last.pending :
       \E out \in {RenderPixel(camera, world, Ok(image), p[1], p[2])} :
           /\ image' = IF IsOk(out) THEN out.v ELSE image
           /\ last' = IF IsOk(out) THEN [last EXCEPT !.pending = @ \ {p}]
                      ELSE [last EXCEPT !.out = "Panic"]
    /\ UNCHANGED <<m, world, camera, canvasVars>>

\* World::default_world(): a light and two spheres, in place of the empty world
MakeDefaultWorld ==
    /\ last = NoOp
    /\ world = World_new
    /\ world' = [objects |-> <<Sphere(new_identity(4), GreenMaterial),
                               Sphere(scaling(Q(1, 2), Q(1, 2), Q(1, 2)), DefaultMaterial)>>,
                 lights |-> <<PointLight(point(I(-10), I(10), I(-10)),
                                         color(I(1), I(1), I(1)))>>]
    /\ UNCHANGED <<m, camera, image, canvasVars, last>>

SpecOrder ==
    InitScene /\ [][MakeDefaultWorld \/ PushSceneObject \/ StartRender \/ EvalPixel]_vars

\* C23: the pixels of a render are independent of each other: in whatever order
\* they are evaluated, the canvas is the one render returns (and an evaluation
\* ends the program only if render does), and the World and the Camera are
\* the ones render was called with.
C23_PixelsAreIndependent ==
    last.op = "rendering" =>
        /\ world = last.world
        /\ camera = last.camera
        /\ last.out = "Panic" => render(camera, world) = Panic
        /\ (last.out = "Ok" /\ last.pending = {}) => render(camera, world) = Ok(image)

\* all four pixels of the 3x3 camera are evaluated and two of a row differ
C23_Witness ==
    /\ last.op = "rendering"
    /\ last.out = "Ok"
    /\ last.pending = {}
    /\ camera.hsize = 3 /\ camera.vsize = 3
    /\ image.pixels[1][0] # image.pixels[1][1]

\* ------------------------------------------------------------------ the shading normal

\* C25 as stated: every Computation prepare_computation returns has
\* dot(normalv, eyev) >= 0, whatever the ray, the transform of the sphere and the
\* sign of t, and when inside is false normalv is the normal of the sphere at the
\* point.
C25_NormalFacesEye ==
    (last.op = "prepare_computation" /\ IsOk(last.out)) =>
        /\ Ge(dot(last.out.v.normalv, last.out.v.eyev), I(0))
        /\ ~last.out.v.inside =>
               last.out.v.normalv =
                   normal_at(world.objects[last.intersection.object], last.out.v.point).v

\* C25, amended: the same for every Computation whose point is not the centre of
\* the sphere. At the centre normal_at divides 0 by 0: normalv is NaN, so is
\* dot(normalv, eyev), and NaN >= 0 is false.
C25_NormalFacesEyeOffCentre ==
    (last.op = "prepare_computation" /\ IsOk(last.out)) =>
        LET n == normal_at(world.objects[last.intersection.object], last.out.v.point).v
        IN  /\ ~IsNaN(n.x) => Ge(dot(last.out.v.normalv, last.out.v.eyev), I(0))
            /\ IsNaN(n.x) =>
                   /\ MatMul(invert(world.objects[last.intersection.object].transformation).v,
                             to_matrix(last.out.v.point))
                          = to_matrix(point(I(0), I(0), I(0)))
                   /\ IsNaN(dot(last.out.v.normalv, last.out.v.eyev))
            /\ ~last.out.v.inside => last.out.v.normalv = n

\* a point inside the sphere, off its centre: the normal is flipped and faces the eye
C25_Witness ==
    /\ last.op = "prepare_computation"
    /\ IsOk(last.out)
    /\ last.intersection.t = Q(1, 2)
    /\ last.out.v.inside
    /\ Gt(dot(last.out.v.normalv, last.out.v.eyev), I(0))

\* ------------------------------------------------------------------ failures of the matrix engine

\* C26: minor, cofactor, det and invert never end the program: for the sizes 1 to
\* 5 and any row and col they return a value or None.
C26_MatrixEngineNeverAborts ==
    last.op \in {"minor", "cofactor", "det", "invert"} => last.out # Panic

\* ------------------------------------------------------------------ a world without lights

\* C27: in a world whose list of lights is empty color_at returns black for a ray
\* with no intersection at t >= 0 and ends the program, on lights[0], for a ray
\* with one: it never returns a color other than black.
C27_NoLightIsBlackOrFatal ==
    (last.op = "color_at" /\ Len(world.lights) = 0) =>
        IF {x \in Crossings(world, last.ray) : Ge(x.t, I(0))} = {}
        THEN last.out = Ok(Black)
        ELSE last.out = Panic

\* a ray that hits a sphere of a world without lights
C27_Witness ==
    /\ last.op = "color_at"
    /\ Len(world.lights) = 0
    /\ Len(world.objects) = 2
    /\ {x \in Crossings(world, last.ray) : Ge(x.t, I(0))} # {}
    /\ last.out = Panic

\* ------------------------------------------------------------------ cameras of any size

\* the largest hsize and vsize of the cameras of every size
MaxSize == 2

\* a camera of hsize x vsize pixels, 0 included, is made and pointed, and the
\* world is rendered with it, by a debug or by a release build
RenderAnySize ==
    \E hsize \in 0..MaxSize, vsize \in 0..MaxSize, build \in {"debug", "release"} :
    \E cam \in {set_view_transformation(Camera_new(hsize, vsize, I(1)),
                                        point(I(0), I(0), I(-5)), point(I(0), I(0), I(0)),
                                        vector(I(0), I(1), I(0)))} :
        /\ last = NoOp
        /\ camera' = cam
        /\ \E out \in {render_build(cam, world, build)} :
               /\ last' = [op |-> "render", build |-> build, out |-> out.tag]
               /\ image' = IF IsOk(out) THEN out.v ELSE image
        /\ UNCHANGED <<m, world, canvasVars>>

SpecSizes == InitScene /\ [][MakeDefaultWorld \/ PushSceneObject \/ RenderAnySize]_vars

\* C28: render returns for a camera of every size, hsize = 0 or vsize = 0
\* included: no subtraction goes below 0 or wraps, no more than hsize * vsize
\* pixels are evaluated, and the canvas returned is hsize x vsize.
C28_RenderReturnsForEverySize ==
    (last.op = "render" /\ (camera.hsize = 0 \/ camera.vsize = 0)) =>
        /\ last.out = "Ok"
        /\ image.width = camera.hsize
        /\ image.height = camera.vsize

\* ------------------------------------------------------------------ the cursor of the canvas

\* C29: on a canvas with width >= 1 the cursor stays at _x < width and
\* _y <= height. A call of next that returns None leaves the cursor at (0, 0),
\* and the calls after it return the same sequence again: the width * height
\* pixels in row-major order, then None, over and over. No call of next changes
\* a pixel.
C29_NextRestartsAfterNone ==
    [][/\ canvas'.width >= 1 =>
              (canvas'._x < canvas'.width /\ canvas'._y <= canvas'.height)
       /\ calls' = calls + 1 =>
              /\ canvas'.pixels = canvas.pixels
              /\ canvas.width >= 1 =>
                     LET pixels == canvas.width * canvas.height
                         k == calls % (pixels + 1)
                     IN  /\ last'.out = None => (canvas'._x = 0 /\ canvas'._y = 0)
                         /\ last'.out = IF k = pixels THEN None
                                        ELSE read_pixel(canvas, k % canvas.width,
                                                                k \div canvas.width)]_vars

\* the fourth call of next on a 2x1 canvas, the first of the second pass, has
\* returned the red pixel (0, 0)
C29_Witness ==
    /\ canvas.width = 2 /\ canvas.height = 1
    /\ last.op = "next" /\ calls = 4
    /\ last.out = Some(color(I(1), I(0), I(0)))
    /\ read_pixel(canvas, 0, 0) = last.out
    /\ read_pixel(canvas, 1, 0) = Some(Black)
    /\ canvas._x = 1 /\ canvas._y = 0

\* ------------------------------------------------------------------ the order of the intersections

\* hit on lists of every order, and color_at on the default world
SpecAnyOrder == InitScene /\ [][MakeDefaultWorld \/ DoColorAt \/ DoHit]_vars

\* the orders of a list of n elements
Orders ==
    [n \in 0..MaxLen |->
        {p \in [1..n -> 1..n] : \A i, j \in 1..n : p[i] = p[j] => i = j}]

\* no two intersections of the list with t >= 0 have the same t
DistinctAhead(list) ==
    \A i, j \in DOMAIN list :
        (Ge(list[i].t, I(0)) /\ list[i].t = list[j].t) => i = j

\* the intersection hit refers to, or None
HitOf(list) == IF IsSome(hit(list)) THEN Some(list[hit(list).v]) ELSE None

\* color_at over the intersections in the order the objects gave them
ColorAtUnsorted(w, ray) ==
    With(intersections_in_world_unsorted(ray, w), LAMBDA xs :
    IF ~IsOk(xs) THEN Panic
    ELSE With(hit(xs.v), LAMBDA h :
         IF IsSome(h)
         THEN With(prepare_computation(ray, w.objects, xs.v[h.v]), LAMBDA comps :
              IF ~IsOk(comps) THEN Panic ELSE shade_hit(w, comps.v))
         ELSE Ok(Black)))

\* C30: when the intersections with t >= 0 of a list have pairwise distinct t,
\* hit refers to the same intersection in whatever order the list is given, the
\* sorted one included; so color_at returns the same with and without the sort
\* of intersections_in_world.
C30_HitIgnoresOrder ==
    /\ (last.op = "hit" /\ DistinctAhead(last.intersections)) =>
           LET list == last.intersections
               found == IF IsSome(last.out) THEN Some(list[last.out.v]) ELSE None
           IN  /\ \A p \in Orders[Len(list)] :
                      HitOf([i \in 1..Len(list) |-> list[p[i]]]) = found
               /\ HitOf(sort_by_t(list)) = found
    /\ (last.op = "color_at"
            /\ DistinctAhead(intersections_in_world_unsorted(last.ray, world).v)) =>
           last.out = ColorAtUnsorted(world, last.ray)

\* a list whose nearest intersection ahead stands last, behind a negative t
C30_Witness ==
    /\ last.op = "hit"
    /\ last.intersections =
           <<Intersection(I(5), 1), Intersection(I(-1), 1), Intersection(I(-1), 1),
             Intersection(I(2), 1)>>
    /\ last.out = Some(4)
    /\ HitOf(sort_by_t(last.intersections)) = Some(Intersection(I(2), 1))
    /\ hit(sort_by_t(last.intersections)) = Some(3)

====
